---------------------------- MODULE Spec2Model ----------------------------
(***************************************************************************)
(* Model of the Centris.ca scraper (src/src/main.js).  The file holds the  *)
(* three historical variants of the pipeline one after the other: v1.1     *)
(* (lines 1-560), v2.0 (lines 562-1322) and v1.0 (lines 1324-2043).  The   *)
(* variant that runs is part of the run's configuration (input.version).   *)
(*                                                                         *)
(* Text is a sequence of one-character strings.  A missing value (null,    *)
(* undefined or NaN in the source) is Unknown for numbers and the empty    *)
(* sequence for text; both are falsy, as in the source.                    *)
(***************************************************************************)
EXTENDS Integers, Sequences, FiniteSets, Bags, TLC

VARIABLES
    input,             \* the run's configuration (Actor.getInput, destructured)
    listingsScraped,   \* counter
    listingsFiltered,  \* counter (v2.0 only; stays 0 in v1.x)
    pagesScraped,      \* counter
    errors,            \* counter
    requests,          \* crawlee's requests: url -> request state
    queue,             \* crawlee's request queue: the urls waiting, oldest first
    dataset,           \* Actor.pushData: a bag of records
    kvStore,           \* Actor.setValue('STATS', ...): the values written, in order
    statsLog,          \* the final log.info(...) lines: the values logged, in order
    phase,             \* "running" | "exited"
    discovered,        \* the listings some search page has shown so far
    faults,            \* number of failures the environment has injected so far
    call,              \* the function applied on its own, with its argument
    result             \* what that application returned

vars == <<input, listingsScraped, listingsFiltered, pagesScraped, errors,
          requests, queue, dataset, kvStore, statsLog, phase, discovered, faults,
          call, result>>

---------------------------------------------------------------------------
(* Bounds of the model *)

NumCards == 2
MaxSearchPages == 2
MaxRegions == 2
MaxListingsBound == 2
MaxRetriesBound == 1
MaxConcurrencyBound == 2
MaxFaults == 2

Unknown == -1

---------------------------------------------------------------------------
(* Text helpers *)

Digits == <<"0", "1", "2", "3", "4", "5", "6", "7", "8", "9">>

IsDigit(ch) == \E i \in 1..10 : Digits[i] = ch

DigitVal(ch) == (CHOOSE i \in 1..10 : Digits[i] = ch) - 1

Upper == <<"A","B","C","D","E","F","G","H","I","J","K","L","M",
           "N","O","P","Q","R","S","T","U","V","W","X","Y","Z",
           "É","È","Ô">>

Lower == <<"a","b","c","d","e","f","g","h","i","j","k","l","m",
           "n","o","p","q","r","s","t","u","v","w","x","y","z",
           "é","è","ô">>

LowerChar(ch) ==
    IF \E i \in 1..Len(Upper) : Upper[i] = ch
    THEN Lower[CHOOSE i \in 1..Len(Upper) : Upper[i] = ch]
    ELSE ch

toLowerCase(s) == [i \in 1..Len(s) |-> LowerChar(s[i])]

(* a faulty includes: the whole text instead of a part of it *)
includesWhole(s, sub) == s = sub

includes(s, sub) ==
    \E k \in 0..(Len(s) - Len(sub)) :
        \A j \in 1..Len(sub) : s[k + j] = sub[j]

RECURSIVE NatToText(_)
NatToText(n) ==
    IF n < 10 THEN <<Digits[n + 1]>>
    ELSE Append(NatToText(n \div 10), Digits[(n % 10) + 1])

(* the number the first k digits of s write *)
RECURSIVE ParseDigitsTo(_, _)
ParseDigitsTo(s, k) ==
    IF k = 0 THEN 0
    ELSE 10 * ParseDigitsTo(s, k - 1) + DigitVal(s[k])

ParseDigits(s) == ParseDigitsTo(s, Len(s))

(* priceStr.replace(/[^0-9]/g, '') *)
StripNonDigits(s) == SelectSeq(s, IsDigit)

(* parsePrice: null for a falsy string or one without digits *)
parsePrice(priceStr) ==
    IF priceStr = <<>> THEN Unknown
    ELSE LET cleaned == StripNonDigits(priceStr)
         IN  IF cleaned # <<>> THEN ParseDigits(cleaned) ELSE Unknown

(* JS truthiness of a number-or-missing value: null, undefined, NaN and 0 are falsy *)
Truthy(n) == n # Unknown /\ n # 0

---------------------------------------------------------------------------
(* Property types (v2.0) *)

PropertyTypeNames == {"house", "condo", "plex", "land", "commercial", "farm", "cottage"}

PROPERTY_TYPE_MAP ==
    [house |-> { <<"m","a","i","s","o","n">>, <<"h","o","u","s","e">>,
                 <<"d","e","t","a","c","h","e","d">>,
                 <<"u","n","i","f","a","m","i","l","i","a","l","e">> },
     condo |-> { <<"c","o","n","d","o">>,
                 <<"c","o","n","d","o","m","i","n","i","u","m">>,
                 <<"a","p","p","a","r","t","e","m","e","n","t">>,
                 <<"a","p","a","r","t","m","e","n","t">> },
     plex  |-> { <<"p","l","e","x">>, <<"d","u","p","l","e","x">>,
                 <<"t","r","i","p","l","e","x">>,
                 <<"q","u","a","d","r","u","p","l","e","x">>,
                 <<"m","u","l","t","i","p","l","e","x">>,
                 <<"r","e","v","e","n","u","e">> },
     land  |-> { <<"t","e","r","r","a","i","n">>, <<"l","a","n","d">>, <<"l","o","t">> },
     commercial |-> { <<"c","o","m","m","e","r","c","i","a","l">>,
                      <<"i","n","d","u","s","t","r","i","e","l">>,
                      <<"i","n","d","u","s","t","r","i","a","l">> },
     farm  |-> { <<"f","e","r","m","e">>, <<"f","a","r","m">>,
                 <<"a","g","r","i","c","o","l","e">> },
     cottage |-> { <<"c","h","a","l","e","t">>, <<"c","o","t","t","a","g","e">> }]

(* the keys of PROPERTY_TYPE_MAP as text *)
PropertyTypeKey ==
    [house |-> <<"h","o","u","s","e">>, condo |-> <<"c","o","n","d","o">>, plex |-> <<"p","l","e","x">>, land |-> <<"l","a","n","d">>,
     commercial |-> <<"c","o","m","m","e","r","c","i","a","l">>,
     farm |-> <<"f","a","r","m">>, cottage |-> <<"c","o","t","t","a","g","e">>]

(* PROPERTY_TYPE_MAP[requestedType.toLowerCase()] || [requestedType.toLowerCase()] *)
TypeVariants(requestedType) ==
    LET key == toLowerCase(requestedType)
    IN  IF \E name \in PropertyTypeNames : PropertyTypeKey[name] = key
        THEN PROPERTY_TYPE_MAP[CHOOSE name \in PropertyTypeNames : PropertyTypeKey[name] = key]
        ELSE {key}

---------------------------------------------------------------------------
(* matchesFilters (v2.0), on a listing record, against the run's input *)

BelowMinPrice(listing) ==
    input.minPrice > 0 /\ Truthy(listing.price) /\ listing.price < input.minPrice

AboveMaxPrice(listing) ==
    input.maxPrice > 0 /\ Truthy(listing.price) /\ listing.price > input.maxPrice

(* faulty range tests, which the filter contract must tell from the real ones:
   a missing value taken for a number, a maximum of 0 taken for a bound, a
   value equal to the minimum rejected *)
BelowMinOnNull(bound, x) == bound > 0 /\ x < bound

AboveMaxAtZero(bound, x) == x # Unknown /\ x > bound

BelowMinInclusive(bound, x) == bound > 0 /\ x # Unknown /\ x <= bound

(* `x !== null && x < bound`: undefined and NaN compare false, like null *)
BelowMin(bound, x) == bound > 0 /\ x # Unknown /\ x < bound

AboveMax(bound, x) == bound > 0 /\ x # Unknown /\ x > bound

TypeMatched(listing) ==
    LET listingType == toLowerCase(listing.propertyType)
    IN  \E requestedType \in input.propertyTypes :
            \E variant \in TypeVariants(requestedType) :
                includes(listingType, variant)

(* a filter that demands a matching type of every listing, typed or not: the
   behaviour the retention of unknown types excludes *)
matchesFiltersTypeRequired(listing) ==
    /\ ~BelowMinPrice(listing)
    /\ ~AboveMaxPrice(listing)
    /\ ~BelowMin(input.minBedrooms, listing.bedrooms)
    /\ ~AboveMax(input.maxBedrooms, listing.bedrooms)
    /\ ~BelowMin(input.minBathrooms, listing.bathrooms)
    /\ ~AboveMax(input.maxBathrooms, listing.bathrooms)
    /\ ~BelowMin(input.minLivingArea, listing.livingArea)
    /\ ~AboveMax(input.maxLivingArea, listing.livingArea)
    /\ ~BelowMin(input.yearBuiltMin, listing.yearBuilt)
    /\ ~AboveMax(input.yearBuiltMax, listing.yearBuilt)
    /\ input.propertyTypes # {} => TypeMatched(listing)

matchesFilters(listing) ==
    /\ ~BelowMinPrice(listing)
    /\ ~AboveMaxPrice(listing)
    /\ ~BelowMin(input.minBedrooms, listing.bedrooms)
    /\ ~AboveMax(input.maxBedrooms, listing.bedrooms)
    /\ ~BelowMin(input.minBathrooms, listing.bathrooms)
    /\ ~AboveMax(input.maxBathrooms, listing.bathrooms)
    /\ ~BelowMin(input.minLivingArea, listing.livingArea)
    /\ ~AboveMax(input.maxLivingArea, listing.livingArea)
    /\ ~BelowMin(input.yearBuiltMin, listing.yearBuilt)
    /\ ~AboveMax(input.yearBuiltMax, listing.yearBuilt)
    /\ (input.propertyTypes # {} /\ listing.propertyType # <<>>) => TypeMatched(listing)


---------------------------------------------------------------------------
(* The site, as the Page Renderer shows it.  A card is a number: 0 is a card
   without a listing link, c in 1..NumCards is the card of listing c.  What a
   card and a listing page show is a fixed function of the listing; which
   cards a search page shows is chosen anew at every extraction. *)

Versions == {"v1.0", "v1.1", "v2.0"}

Cards == 1..NumCards

NoLink == 0

(* a search page shows the first k listings, or one card without a link *)
PageContents ==
    {[i \in 1..k |-> i] : k \in 0..NumCards} \cup {<<NoLink>>}

Maison == <<"M","a","i","s","o","n">>

Condo == <<"C","o","n","d","o">>

(* The region Montreal has one search page, of five cards: asking prices
   ScenarioPrices, bedrooms ScenarioBedrooms, four houses and one condo.  Card
   10 + p is the house at position p, card 20 + p the condo at position p. *)
Montreal == 0

ScenarioPrices == <<350000, 500000, 650000, 900000, 750000>>

ScenarioBedrooms == <<2, 3, 4, 3, 3>>

Positions == 1..Len(ScenarioPrices)

HouseAt(p) == 10 + p

CondoAt(p) == 20 + p

ScenarioCards == {HouseAt(p) : p \in Positions} \cup {CondoAt(p) : p \in Positions}

Position(c) == c % 10

(* the page with its condo at position k *)
ScenarioPage(k) == [p \in Positions |-> IF p = k THEN CondoAt(p) ELSE HouseAt(p)]

(* what the search page at u may show when it is read *)
PageContentsOf(u) ==
    IF u.region = Montreal THEN {ScenarioPage(k) : k \in Positions} ELSE PageContents

(* the price text of listing c on its card: every third card shows none *)
CardPriceText(c) ==
    IF c \in ScenarioCards THEN NatToText(ScenarioPrices[Position(c)]) \o <<" ", "$">>
    ELSE IF c % 3 = 0 THEN <<>> ELSE NatToText(c * 100) \o <<" ", "$">>

(* the price text of listing c on its own page *)
PagePriceText(c) ==
    IF c \in ScenarioCards THEN CardPriceText(c)
    ELSE NatToText(c * 100) \o <<" ", "$">>

CardType(c) ==
    IF c \in ScenarioCards THEN (IF c = CondoAt(Position(c)) THEN Condo ELSE Maison)
    ELSE IF c % 2 = 1 THEN Maison ELSE Condo

CardBedrooms(c) == IF c \in ScenarioCards THEN ScenarioBedrooms[Position(c)] ELSE c

(* searchType === 'rent' ? 'Rental' : 'Sale' (v2.0); 'Rent' in v1.x *)
TransactionType ==
    IF input.searchType = "rent"
    THEN (IF input.version = "v2.0" THEN "Rental" ELSE "Rent")
    ELSE "Sale"

ListUrl(r, p) == [label |-> "LIST", region |-> r, page |-> p, id |-> 0]

ListingUrl(c) == [label |-> "LISTING", region |-> 0, page |-> 0, id |-> c]

(* the pages of the numbered regions and of their listings *)
RegionUrls ==
    {ListUrl(r, p) : r \in 1..MaxRegions, p \in 1..MaxSearchPages}
        \cup {ListingUrl(c) : c \in Cards}

Urls ==
    RegionUrls \cup {ListUrl(Montreal, 1)} \cup {ListingUrl(c) : c \in ScenarioCards}

(* `parseInt(text.replace(/[^0-9]/g, ''), 10) || null` (v1.1): NaN and 0 give null *)
ParseIntOrNull(text) ==
    LET n == parsePrice(text) IN IF Truthy(n) THEN n ELSE Unknown

(* The listing object a search page yields for card c (c >= 1).
   v2.0: extractListingsFromPage; the handler's pre-filter parses the price.
   v1.1: extractListingsFromPage; the price is parsed when the text holds '$'.
   v1.0: extractListingFromCard; transactionType is set here. *)
Summary(c) ==
    [url |-> ListingUrl(c),
     priceFormatted |-> CardPriceText(c),
     price |-> CASE input.version = "v2.0" -> Unknown
                 [] input.version = "v1.1" -> ParseIntOrNull(CardPriceText(c))
                 [] OTHER -> parsePrice(CardPriceText(c)),
     propertyType |-> CardType(c),
     bedrooms |-> CardBedrooms(c),
     bathrooms |-> Unknown,
     livingArea |-> Unknown,
     yearBuilt |-> Unknown,
     transactionType |-> IF input.version = "v1.0" THEN TransactionType ELSE "",
     scrapedAt |-> input.version = "v1.0"]

(* v2.0 pre-filter, lines 1212-1214: listing.price = parsePrice(listing.priceFormatted) *)
WithParsedPrice(listing) ==
    IF listing.priceFormatted # <<>>
    THEN [listing EXCEPT !.price = parsePrice(listing.priceFormatted)]
    ELSE listing

(* What the listing's own page adds (the keys the evaluate closure defines). *)
PageData(c) ==
    [priceFormatted |-> PagePriceText(c),
     price |-> ParseIntOrNull(PagePriceText(c)),
     bedrooms |-> CardBedrooms(c),
     bathrooms |-> 1,
     livingArea |-> c * 500,
     yearBuilt |-> 1990 + c]

(* extractListingDetails.  v2.0: { ...basicListing, ...details }, details holding
   priceFormatted, bedrooms, bathrooms, livingArea, yearBuilt but no price.
   v1.1: Object.assign(details, pageData), pageData holding price too; then
   transactionType and scrapedAt are set.  v1.0: specifications only. *)
extractListingDetails(basicListing) ==
    LET d == PageData(basicListing.url.id)
    IN  CASE input.version = "v2.0" ->
               [basicListing EXCEPT !.priceFormatted = d.priceFormatted,
                                    !.bedrooms = d.bedrooms,
                                    !.bathrooms = d.bathrooms,
                                    !.livingArea = d.livingArea,
                                    !.yearBuilt = d.yearBuilt]
          [] input.version = "v1.1" ->
               [basicListing EXCEPT !.priceFormatted = d.priceFormatted,
                                    !.price = d.price,
                                    !.bedrooms = d.bedrooms,
                                    !.bathrooms = d.bathrooms,
                                    !.livingArea = d.livingArea,
                                    !.yearBuilt = d.yearBuilt,
                                    !.transactionType = TransactionType,
                                    !.scrapedAt = TRUE]
          [] OTHER ->
               [basicListing EXCEPT !.livingArea = d.livingArea,
                                    !.yearBuilt = d.yearBuilt]

(* v1.1 extractListingDetails when the page read throws: the catch logs, and the
   basic listing goes on with transactionType and scrapedAt; v1.0 returns it as is *)
DetailsAfterError(basicListing) ==
    IF input.version = "v1.1"
    THEN [basicListing EXCEPT !.transactionType = TransactionType, !.scrapedAt = TRUE]
    ELSE basicListing

(* a handler that parses the price text again whatever price the listing
   carries: the behaviour under which the pre-filter would not be sound *)
ParsePriceAlways(listing) ==
    IF listing.priceFormatted # <<>>
    THEN [listing EXCEPT !.price = parsePrice(listing.priceFormatted)]
    ELSE listing

(* lines 1171-1173 *)
ParsePriceIfNeeded(listing) ==
    IF ~Truthy(listing.price) /\ listing.priceFormatted # <<>>
    THEN [listing EXCEPT !.price = parsePrice(listing.priceFormatted)]
    ELSE listing

(* the record as pushed: transactionType and scrapedAt set at emission (v2.0) *)
Stamped(listing) ==
    [listing EXCEPT !.transactionType = TransactionType, !.scrapedAt = TRUE]


---------------------------------------------------------------------------
(* The run's state, threaded through a handler's synchronous code *)

Machine ==
    [ls |-> listingsScraped, lf |-> listingsFiltered, ps |-> pagesScraped,
     er |-> errors, ds |-> dataset, rq |-> requests, q |-> queue]

NewRequest ==
    [state |-> "none", retryCount |-> 0, pc |-> "-",
     listings |-> <<>>, idx |-> 0, processed |-> 0]

(* crawler.addRequests: the queue keeps one request per URL (its uniqueKey),
   and a new request goes to the back *)
addRequests(m, url) ==
    IF m.rq[url].state = "none"
    THEN [m EXCEPT !.rq[url].state = "queued", !.q = Append(@, url)]
    ELSE m

(* a sink that loses the record it is given *)
pushDataDropped(ds, rec) == ds

(* Actor.pushData *)
pushData(ds, rec) == ds (+) SetToBag({rec})

(* the handler suspends at an awaited call *)
Await(m, u, pc, i, processed) ==
    [m EXCEPT !.rq[u].pc = pc, !.rq[u].idx = i, !.rq[u].processed = processed]

(* the handler returns: crawlee marks the request handled *)
Handled(m, u) ==
    [m EXCEPT !.rq[u] = [NewRequest EXCEPT !.state = "handled",
                                           !.retryCount = m.rq[u].retryCount]]

(* a failedRequestHandler that would abort the crawl, dropping what is queued:
   the behaviour that isolation of failures excludes *)
failedRequestHandlerAborting(m, u) ==
    [m EXCEPT !.er = @ + 1,
              !.ds = IF input.version = "v2.0" THEN @
                     ELSE pushData(@, [url |-> u, failed |-> TRUE]),
              !.q = <<>>]

(* The handler's promise rejects, or crawlee's timeout fires: the request is
   reclaimed while retryCount < maxRequestRetries, else failedRequestHandler
   runs: errors++, and in v1.x an error record is pushed. *)
failedRequestHandler(m, u) ==
    [m EXCEPT !.er = @ + 1,
              !.ds = IF input.version = "v2.0" THEN @
                     ELSE pushData(@, [url |-> u, failed |-> TRUE])]

(* a failure that loses the request: neither reclaimed nor reported *)
RequestFailsDropped(m, u) == m

RequestFails(m, u) ==
    IF m.rq[u].retryCount < input.maxRequestRetries
    THEN [m EXCEPT !.rq[u] = [NewRequest EXCEPT !.state = "queued",
                                                !.retryCount = m.rq[u].retryCount + 1],
                   !.q = Append(@, u)]
    ELSE failedRequestHandler(
             [m EXCEPT !.rq[u] = [NewRequest EXCEPT !.state = "failed",
                                                    !.retryCount = m.rq[u].retryCount]], u)

(* the next-page link of page p of a region leads to page p + 1 *)
NextUrl(u) == ListUrl(u.region, u.page + 1)

EnqueueNext(m, u, found) ==
    IF found THEN addRequests(m, NextUrl(u)) ELSE m

---------------------------------------------------------------------------
(* v2.0 requestHandler, lines 1158-1289 *)

(* the listing object of card c as the search-page loop holds it after its
   pre-filter; it is also the basicData of the listing's request *)
BasicData20(c) == WithParsedPrice(Summary(c))

PreFiltered20(listing) ==
    listing.priceFormatted # <<>> /\ (BelowMinPrice(listing) \/ AboveMaxPrice(listing))

(* a next-page test that looks for the link whatever the quota and the page:
   the behaviour the pagination contract excludes *)
AfterLoop20Always(m, u) == Await(m, u, "probe", 0, 0)

(* lines 1253-1282, up to the first awaited page.$ *)
AfterLoop20(m, u) ==
    IF m.ls < input.maxListings /\ Len(m.rq[u].listings) > 0
    THEN Await(m, u, "probe", 0, 0)
    ELSE Handled(m, u)

(* lines 1205-1251 from card i, up to the next awaited call *)
RECURSIVE SearchLoop20(_, _, _)
SearchLoop20(m, u, i) ==
    LET L == m.rq[u].listings
    IN  IF i > Len(L) \/ m.ls >= input.maxListings
        THEN AfterLoop20(m, u)
        ELSE LET listing == BasicData20(L[i])
             IN  IF PreFiltered20(listing)
                 THEN SearchLoop20([m EXCEPT !.lf = @ + 1], u, i + 1)
                 ELSE IF input.includeDetails
                 THEN Await(m, u, "enqueue", i, 0)
                 ELSE IF matchesFilters(ParsePriceIfNeeded(listing))
                 THEN Await(m, u, "push", i, 0)
                 ELSE SearchLoop20([m EXCEPT !.lf = @ + 1], u, i + 1)

(* a search-page handler that pushes a summary without counting it: the
   behaviour the counting contract excludes *)
ResumeSearch20Uncounted(m, u, content, found) ==
    LET r == m.rq[u]
    IN  CASE r.pc = "extract" ->
               SearchLoop20([m EXCEPT !.rq[u].listings =
                                 SelectSeq(content, LAMBDA c : c # NoLink)], u, 1)
          [] r.pc = "enqueue" ->
               SearchLoop20(addRequests(m, ListingUrl(r.listings[r.idx])),
                            u, r.idx + 1)
          [] r.pc = "push" ->
               SearchLoop20(
                   [m EXCEPT !.ds = pushData(@, Stamped(ParsePriceIfNeeded(
                                                  BasicData20(r.listings[r.idx]))))],
                   u, r.idx + 1)
          [] OTHER -> Handled(EnqueueNext(m, u, found), u)

(* the awaited call of a search-page handler resolves *)
ResumeSearch20(m, u, content, found) ==
    LET r == m.rq[u]
    IN  CASE r.pc = "extract" ->
               SearchLoop20([m EXCEPT !.rq[u].listings =
                                 SelectSeq(content, LAMBDA c : c # NoLink)], u, 1)
          [] r.pc = "enqueue" ->
               SearchLoop20(addRequests(m, ListingUrl(r.listings[r.idx])),
                            u, r.idx + 1)
          [] r.pc = "push" ->
               SearchLoop20(
                   [m EXCEPT !.ds = pushData(@, Stamped(ParsePriceIfNeeded(
                                                  BasicData20(r.listings[r.idx])))),
                             !.ls = @ + 1],
                   u, r.idx + 1)
          [] OTHER -> Handled(EnqueueNext(m, u, found), u)

(* lines 1165-1186 *)
DetailedListing20(u) == ParsePriceIfNeeded(extractListingDetails(BasicData20(u.id)))

ResumeListing20(m, u) ==
    LET r == m.rq[u]
    IN  CASE r.pc = "extract" ->
               IF matchesFilters(DetailedListing20(u))
               THEN Await(m, u, "push", 0, 0)
               ELSE Handled([m EXCEPT !.lf = @ + 1], u)
          [] OTHER ->
               Handled([m EXCEPT !.ds = pushData(@, Stamped(DetailedListing20(u))),
                                 !.ls = @ + 1], u)

---------------------------------------------------------------------------
(* v1.1 requestHandler, lines 426-504 *)

(* lines 500-502 *)
AfterProbe11(m, u) ==
    IF ~input.includeDetails THEN Await(m, u, "status", 0, 0) ELSE Handled(m, u)

(* lines 484-498, up to the awaited page.$ *)
AfterLoop11(m, u, processed) ==
    IF m.ls + processed < input.maxListings /\ Len(m.rq[u].listings) > 0
    THEN Await(m, u, "probe", 0, processed)
    ELSE AfterProbe11(m, u)

(* lines 460-482 from card i: every card has a url; each iteration awaits *)
SearchLoop11(m, u, i, processed) ==
    IF i > Len(m.rq[u].listings) \/ m.ls + processed >= input.maxListings
    THEN AfterLoop11(m, u, processed)
    ELSE Await(m, u, IF input.includeDetails THEN "enqueue" ELSE "push", i, processed)

ResumeSearch11(m, u, content, found) ==
    LET r == m.rq[u]
    IN  CASE r.pc = "extract" ->
               SearchLoop11([m EXCEPT !.rq[u].listings =
                                 SelectSeq(content, LAMBDA c : c # NoLink)], u, 1, 0)
          [] r.pc = "enqueue" ->
               SearchLoop11(addRequests(m, ListingUrl(r.listings[r.idx])),
                            u, r.idx + 1, r.processed + 1)
          [] r.pc = "push" ->
               SearchLoop11([m EXCEPT !.ds = pushData(@, Stamped(Summary(r.listings[r.idx]))),
                                      !.ls = @ + 1],
                            u, r.idx + 1, r.processed + 1)
          [] r.pc = "probe" -> AfterProbe11(EnqueueNext(m, u, found), u)
          [] OTHER -> Handled(m, u)

(* lines 433-440; idx = 1 records that the page read inside extractListingDetails
   threw (and was caught there) *)
DetailedListing1x(r, u) ==
    IF r.idx = 1 THEN DetailsAfterError(Summary(u.id))
    ELSE extractListingDetails(Summary(u.id))

ResumeListing1x(m, u) ==
    LET r == m.rq[u]
    IN  CASE r.pc = "extract" -> Await(m, u, "push", 0, 0)
          [] r.pc = "push" ->
               Await([m EXCEPT !.ds = pushData(@, DetailedListing1x(r, u)),
                               !.ls = @ + 1],
                     u, "status", 0, 0)
          [] OTHER -> Handled(m, u)

---------------------------------------------------------------------------
(* v1.0 requestHandler, lines 1902-1983 *)

(* lines 1936-1947: the cards are read while listingsScraped + the number kept
   stays below maxListings; a card without a link gives no url and is dropped *)
RECURSIVE ListingsToProcess(_, _, _, _)
ListingsToProcess(content, i, acc, ls) ==
    IF i > Len(content) \/ ls + Len(acc) >= input.maxListings
    THEN acc
    ELSE ListingsToProcess(content, i + 1,
                           IF content[i] # NoLink THEN Append(acc, content[i]) ELSE acc,
                           ls)

(* lines 1968-1981, up to the awaited page.$ *)
NextCheck10(m, u) ==
    IF m.ls + Len(m.rq[u].listings) < input.maxListings
    THEN Await(m, u, "probe", 0, 0)
    ELSE Handled(m, u)

(* lines 1950-1966 from listing i *)
SearchLoop10(m, u, i) ==
    IF i > Len(m.rq[u].listings)
    THEN (IF input.includeDetails THEN NextCheck10(m, u) ELSE Await(m, u, "status", 0, 0))
    ELSE Await(m, u, IF input.includeDetails THEN "enqueue" ELSE "push", i, 0)

(* page.waitForSelector throws after its timeout when the page shows no card *)
WaitForSelectorThrows(content) == Len(content) = 0

ResumeSearch10(m, u, content, found) ==
    LET r == m.rq[u]
    IN  CASE r.pc = "extract" ->
               IF WaitForSelectorThrows(content)
               THEN RequestFails(m, u)
               ELSE SearchLoop10([m EXCEPT !.rq[u].listings =
                                      ListingsToProcess(content, 1, <<>>, m.ls)], u, 1)
          [] r.pc = "enqueue" ->
               SearchLoop10(addRequests(m, ListingUrl(r.listings[r.idx])),
                            u, r.idx + 1)
          [] r.pc = "push" ->
               SearchLoop10([m EXCEPT !.ds = pushData(@, Summary(r.listings[r.idx])),
                                      !.ls = @ + 1],
                            u, r.idx + 1)
          [] r.pc = "status" -> NextCheck10(m, u)
          [] OTHER -> Handled(EnqueueNext(m, u, found), u)

---------------------------------------------------------------------------
(* The handler of the run's variant *)

ResumeSearch(m, u, content, found) ==
    CASE input.version = "v2.0" -> ResumeSearch20(m, u, content, found)
      [] input.version = "v1.1" -> ResumeSearch11(m, u, content, found)
      [] OTHER -> ResumeSearch10(m, u, content, found)

ResumeListing(m, u) ==
    IF input.version = "v2.0" THEN ResumeListing20(m, u) ELSE ResumeListing1x(m, u)

(* An awaited call of the handler rejects.  v2.0 wraps each branch in try/catch:
   errors++ and the handler returns.  v1.x: extractListingDetails catches its own
   page reads and the handler goes on to push; anything else rejects the handler. *)
(* a catch that swallows the error without counting it *)
HandlerCatchesUncounted(m, u) == Handled(m, u)

HandlerCatches(m, u) ==
    IF input.version = "v2.0"
    THEN Handled([m EXCEPT !.er = @ + 1], u)
    ELSE IF u.label = "LISTING" /\ m.rq[u].pc = "extract"
    THEN Await(m, u, "push", 1, 0)
    ELSE RequestFails(m, u)

---------------------------------------------------------------------------
(* The run *)

NoFilters ==
    [minPrice |-> 0, maxPrice |-> 0, minBedrooms |-> 0, maxBedrooms |-> 0,
     minBathrooms |-> 0, maxBathrooms |-> 0, minLivingArea |-> 0, maxLivingArea |-> 0,
     minLotSize |-> 0, maxLotSize |-> 0, yearBuiltMin |-> 0, yearBuiltMax |-> 0,
     propertyTypes |-> {}]

FilterSpecs == {NoFilters, [NoFilters EXCEPT !.minPrice = 200]}

SearchTypes == {"buy", "rent"}

(* const { ... } = input: the run's configuration *)
Inputs ==
    {[version |-> v, searchType |-> st, regions |-> [i \in 1..n |-> i],
      maxListings |-> ml, includeDetails |-> det,
      maxConcurrency |-> mc, maxRequestRetries |-> mr,
      minPrice |-> f.minPrice, maxPrice |-> f.maxPrice,
      minBedrooms |-> f.minBedrooms, maxBedrooms |-> f.maxBedrooms,
      minBathrooms |-> f.minBathrooms, maxBathrooms |-> f.maxBathrooms,
      minLivingArea |-> f.minLivingArea, maxLivingArea |-> f.maxLivingArea,
      minLotSize |-> f.minLotSize, maxLotSize |-> f.maxLotSize,
      yearBuiltMin |-> f.yearBuiltMin, yearBuiltMax |-> f.yearBuiltMax,
      propertyTypes |-> f.propertyTypes] :
        v \in Versions, st \in SearchTypes, n \in 1..MaxRegions,
        ml \in 1..MaxListingsBound, det \in BOOLEAN,
        mc \in 1..MaxConcurrencyBound, mr \in 0..MaxRetriesBound,
        f \in FilterSpecs}

(* no function is applied on its own during a run *)
NoCall == [fn |-> "none"]

Pending == "pending"

(* startUrls: one search page per requested region, built for page 1; with no
   region v1.1 starts from buildRegionSearchUrl('montreal') (lines 527-532).
   v1.0 starts from buildSearchUrl() then, a run this model does not include. *)
startUrls(regions) ==
    IF Len(regions) = 0 /\ input.version = "v1.1"
    THEN <<ListUrl(Montreal, 1)>>
    ELSE [i \in 1..Len(regions) |-> ListUrl(regions[i], 1)]

(* the state in which crawler.run(startUrls) is called *)
RunStarts ==
    /\ listingsScraped = 0
    /\ listingsFiltered = 0
    /\ pagesScraped = 0
    /\ errors = 0
    /\ requests = [u \in Urls |->
                     IF \E i \in 1..Len(input.regions) : startUrls(input.regions)[i] = u
                     THEN [NewRequest EXCEPT !.state = "queued"]
                     ELSE NewRequest]
    /\ queue = startUrls(input.regions)
    /\ dataset = EmptyBag
    /\ kvStore = <<>>
    /\ statsLog = <<>>
    /\ phase = "running"
    /\ discovered = {}
    /\ faults = 0
    /\ call = NoCall
    /\ result = Pending

Init == input \in Inputs /\ RunStarts

InFlight == {u \in Urls : requests[u].state = "inflight"}

Commit(m) ==
    /\ listingsScraped' = m.ls
    /\ listingsFiltered' = m.lf
    /\ pagesScraped' = m.ps
    /\ errors' = m.er
    /\ dataset' = m.ds
    /\ requests' = m.rq
    /\ queue' = m.q

SlotFree == Cardinality(InFlight) < input.maxConcurrency

(* crawlee takes a queued request when a slot of the pool is free and navigates;
   requestHandler starts and runs to its first awaited page read; the
   search-page branch counts the page first *)
StartRequest(u) ==
    /\ phase = "running"
    /\ queue # <<>> /\ u = Head(queue)
    /\ SlotFree
    /\ Commit(Await([Machine EXCEPT !.rq[u].state = "inflight",
                                    !.q = Tail(@),
                                    !.ps = IF u.label = "LIST" THEN @ + 1 ELSE @],
                    u, "extract", 0, 0))
    /\ UNCHANGED <<input, kvStore, statsLog, phase, discovered, faults, call, result>>

InHandler(u) == requests[u].state = "inflight"

(* the site holds at most MaxSearchPages search pages: a further next-page link
   exists only while fewer are known to the queue *)
SearchPagesKnown ==
    Cardinality({u \in Urls : u.label = "LIST" /\ requests[u].state # "none"})

(* the awaited call of u's handler resolves, a page read giving content and a
   next-page probe giving found, and the handler runs on to its next awaited call *)
Resolves(u, content, found) ==
    /\ InHandler(u)
    /\ Commit(IF u.label = "LIST"
              THEN ResumeSearch(Machine, u, content, found)
              ELSE ResumeListing(Machine, u))
    /\ discovered' = discovered \cup ({content[i] : i \in 1..Len(content)} \ {NoLink})
    /\ UNCHANGED <<input, kvStore, statsLog, phase, faults, call, result>>

AwaitResolves(u) ==
    /\ InHandler(u)
    /\ \E content \in (IF u.label = "LIST" /\ requests[u].pc = "extract"
                       THEN PageContentsOf(u) ELSE {<<>>}) :
       \E found \in (IF /\ requests[u].pc = "probe" /\ u.region # Montreal
                        /\ SearchPagesKnown < MaxSearchPages
                     THEN BOOLEAN ELSE {FALSE}) :
          Resolves(u, content, found)

(* crawlee takes a queued request and its navigation fails or exceeds
   navigationTimeoutSecs: the handler is not called *)
NavigationFails(u) ==
    /\ phase = "running"
    /\ queue # <<>> /\ u = Head(queue)
    /\ SlotFree
    /\ faults < MaxFaults
    /\ faults' = faults + 1
    /\ Commit(RequestFails([Machine EXCEPT !.q = Tail(@)], u))
    /\ UNCHANGED <<input, kvStore, statsLog, phase, discovered, call, result>>

(* an awaited call of the handler rejects (in v2.0 the next-page probe swallows
   its own errors and tries the next selector) *)
AwaitRejects(u) ==
    /\ InHandler(u)
    /\ ~(input.version = "v2.0" /\ requests[u].pc = "probe")
    /\ faults < MaxFaults
    /\ faults' = faults + 1
    /\ Commit(HandlerCatches(Machine, u))
    /\ UNCHANGED <<input, kvStore, statsLog, phase, discovered, call, result>>

(* the handler exceeds requestHandlerTimeoutSecs *)
HandlerTimesOut(u) ==
    /\ InHandler(u)
    /\ faults < MaxFaults
    /\ faults' = faults + 1
    /\ Commit(RequestFails(Machine, u))
    /\ UNCHANGED <<input, kvStore, statsLog, phase, discovered, call, result>>

(* crawler.run resolves when no request is queued or in flight; then the final
   statistics: v1.x log them and write them to the key-value store as STATS,
   v2.0 logs them *)
FinalStats ==
    /\ phase = "running"
    /\ queue = <<>> /\ InFlight = {}
    /\ phase' = "exited"
    /\ IF input.version = "v2.0"
       THEN /\ statsLog' = Append(statsLog,
                               [listingsSaved |-> listingsScraped,
                                listingsFiltered |-> listingsFiltered,
                                pagesScraped |-> pagesScraped, errors |-> errors])
            /\ kvStore' = kvStore
       ELSE LET stats == [listingsScraped |-> listingsScraped,
                          pagesScraped |-> pagesScraped, errors |-> errors]
            IN  /\ statsLog' = Append(statsLog, stats)
                /\ kvStore' = Append(kvStore, stats)
    /\ UNCHANGED <<input, listingsScraped, listingsFiltered, pagesScraped, errors,
                   requests, queue, dataset, discovered, faults, call, result>>

Next ==
    \/ \E u \in Urls : StartRequest(u)
    \/ \E u \in Urls : AwaitResolves(u)
    \/ \E u \in Urls : NavigationFails(u)
    \/ \E u \in Urls : AwaitRejects(u)
    \/ \E u \in Urls : HandlerTimesOut(u)
    \/ FinalStats

Spec == Init /\ [][Next]_vars

---------------------------------------------------------------------------
(* The dataset: listing records, and the error records of failedRequestHandler *)

IsListingRecord(rec) == "failed" \notin DOMAIN rec

ListingRecords == {rec \in BagToSet(dataset) : IsListingRecord(rec)}

RECURSIVE CopiesOfAll(_, _)
CopiesOfAll(ds, recs) ==
    IF recs = {} THEN 0
    ELSE LET rec == CHOOSE x \in recs : TRUE
         IN  CopiesIn(rec, ds) + CopiesOfAll(ds, recs \ {rec})

(* the number of listing records pushed so far *)
ListingRecordCount == CopiesOfAll(dataset, ListingRecords)

ErrorRecordCount(u) == CopiesIn([url |-> u, failed |-> TRUE], dataset)

(* the record the run emits for card c when nothing fails *)
CandidateRecord(c) ==
    CASE input.version = "v2.0" /\ input.includeDetails -> DetailedListing20(ListingUrl(c))
      [] input.version = "v2.0" -> ParsePriceIfNeeded(BasicData20(c))
      [] input.includeDetails -> extractListingDetails(Summary(c))
      [] OTHER -> Summary(c)

(* the cards shown to the run so far whose record passes the filter *)
MatchingCandidates == {c \in discovered : matchesFilters(CandidateRecord(c))}

NoTaskFailed ==
    /\ faults = 0
    /\ errors = 0
    /\ \A u \in Urls : requests[u].retryCount = 0 /\ requests[u].state # "failed"

---------------------------------------------------------------------------
(* C1: the number of listing records pushed to the dataset never exceeds
   maxListings, whatever the interleaving of the handlers. *)
C1_QuotaNeverExceeded == ListingRecordCount <= input.maxListings

(* C2: a run without any task failure that was shown more than maxListings
   filter-matching cards has, once it has exited, emitted exactly maxListings
   records. *)
C2_ExactlyQuotaEmitted ==
    (phase = "exited" /\ NoTaskFailed
       /\ Cardinality(MatchingCandidates) > input.maxListings)
    => (listingsScraped = input.maxListings /\ ListingRecordCount = input.maxListings)

(* C3: every listing record in the dataset satisfies the filter predicate,
   whether it was pushed by the search-page branch or by the detail-page branch. *)
C3_EmittedRecordsMatchFilter == \A rec \in ListingRecords : matchesFilters(rec)


(* an attempt of u ends in failure: its navigation fails, an awaited call of its
   handler rejects, its handler times out, or (v1.0) waitForSelector throws *)
AttemptFails(u) ==
    \/ NavigationFails(u)
    \/ AwaitRejects(u)
    \/ HandlerTimesOut(u)
    \/ /\ u.label = "LIST" /\ InHandler(u) /\ requests[u].pc = "extract"
       /\ input.version = "v1.0"
       /\ Resolves(u, <<>>, FALSE)

(* C4: the step in which a request fails for good (its attempt
   maxRequestRetries + 1 failed) adds 1 to errors and leaves exactly one error
   record for its URL in the dataset; a step that only requeues it for a retry
   adds nothing to errors and pushes no error record. *)
C4_TerminalFailureRecordedOnce ==
    [][\A u \in Urls :
         /\ (requests[u].state # "failed" /\ requests'[u].state = "failed")
              => (errors' = errors + 1 /\ ErrorRecordCount(u)' = 1)
         /\ (requests'[u].retryCount = requests[u].retryCount + 1)
              => (errors' = errors /\ ErrorRecordCount(u)' = 0)]_vars

(* C5: every failed attempt, a processing error inside the handler included, is
   treated as a failure of the request: requeued with retryCount + 1 while
   retryCount < maxRequestRetries, failed for good otherwise; so no request is
   attempted more than maxRequestRetries + 1 times. *)
C5_FailedAttemptRequeuedOrTerminal ==
    [][\A u \in Urls :
         AttemptFails(u)
         => /\ IF requests[u].retryCount < input.maxRequestRetries
               THEN /\ requests'[u].state = "queued"
                    /\ requests'[u].retryCount = requests[u].retryCount + 1
               ELSE requests'[u].state = "failed"
            /\ requests'[u].retryCount <= input.maxRequestRetries]_vars

(* C6: a detail-page handler whose awaited call resolves while listingsScraped
   has reached maxListings pushes nothing: the quota is checked again on the
   detail path before the record is emitted. *)
C6_DetailPathRechecksQuota ==
    [][\A u \in Urls :
         (u.label = "LISTING" /\ listingsScraped >= input.maxListings
            /\ Resolves(u, <<>>, FALSE))
         => dataset' = dataset]_vars

ReportCounters == {"listingsScraped", "listingsFiltered", "pagesScraped", "errors"}

(* C7: a run that has exited has persisted its final report exactly once, and
   the report holds the counters listingsScraped, listingsFiltered, pagesScraped
   and errors with their final values. *)
C7_FinalReportPersistedOnce ==
    phase = "exited"
    => /\ Len(kvStore) = 1
       /\ ReportCounters \subseteq DOMAIN kvStore[1]
       /\ kvStore[1].listingsScraped = listingsScraped
       /\ kvStore[1].listingsFiltered = listingsFiltered
       /\ kvStore[1].pagesScraped = pagesScraped
       /\ kvStore[1].errors = errors

(* every request the run knew ended failed, none was handled *)
EveryTaskFailed ==
    /\ \A u \in Urls : requests[u].state \in {"none", "failed"}
    /\ \E u \in Urls : requests[u].state = "failed"

(* C8: a run in which every attempt of every request failed exits with no
   listing record, exactly one error record per failed URL, and errors equal to
   pagesScraped. *)
C8_AllFailedRunReport ==
    (phase = "exited" /\ EveryTaskFailed)
    => /\ ListingRecordCount = 0
       /\ \A u \in Urls : requests[u].state = "failed" => ErrorRecordCount(u) = 1
       /\ errors = pagesScraped


InQueue(u, q) == \E i \in 1..Len(q) : q[i] = u

Terminal(u) == requests[u].state \in {"none", "handled", "failed"}

(* what a failed attempt of u leaves alone: the counters other than errors, the
   records already pushed, every other request and its place in the queue *)
FailureIsolated(u) ==
    /\ listingsScraped' = listingsScraped
    /\ listingsFiltered' = listingsFiltered
    /\ pagesScraped' = pagesScraped
    /\ errors' \in {errors, errors + 1}
    /\ phase' = phase
    /\ ListingRecords' = ListingRecords
    /\ \A rec \in ListingRecords : CopiesIn(rec, dataset') = CopiesIn(rec, dataset)
    /\ \A v \in Urls \ {u} :
         /\ requests'[v] = requests[v]
         /\ InQueue(v, queue') <=> InQueue(v, queue)

(* C9: a failed attempt of one request changes no pushed listing record and no
   counter other than errors, and leaves every other request as it was, queued
   or in flight; the run does not stop on it: it exits only when every request
   is handled or failed. *)
C9_FailureIsIsolated ==
    [][/\ \A u \in Urls : AttemptFails(u) => FailureIsolated(u)
       /\ phase' = "exited" => \A u \in Urls : Terminal(u)']_vars

(* a request has failed for good while another one is in the middle of its
   handler, about to push *)
C9_Witness ==
    \E u \in Urls, v \in Urls :
        /\ u # v
        /\ requests[u].state = "failed"
        /\ requests[v].state = "inflight" /\ requests[v].pc = "push"

NoSummaries(content) == SelectSeq(content, LAMBDA c : c # NoLink) = <<>>

(* C10: a search page whose extraction yields no listing ends pagination for
   its region: its handler probes for no next page, enqueues nothing and
   returns, the request counting as handled. *)
C10_EmptyPageEndsPagination ==
    [][\A u \in Urls :
         /\ \A content \in PageContents :
              (u.label = "LIST" /\ requests[u].pc = "extract"
                 /\ NoSummaries(content) /\ Resolves(u, content, FALSE))
              => /\ requests'[u].state \in {"handled", "inflight"}
                 /\ requests'[u].pc \in {"-", "status"}
                 /\ queue' = queue
         /\ (requests[u].pc # "probe" /\ requests'[u].pc = "probe")
              => Len(requests'[u].listings) > 0]_vars

---------------------------------------------------------------------------
(* The functions of the pipeline applied on their own: the configuration and
   the argument are drawn from bounded sets, one application per behaviour *)

MaxFieldValue == 2
MaxBoundValue == 1

(* a numeric field of a listing: missing, or a number *)
FieldValues == {Unknown} \cup 0..MaxFieldValue

BoundNames ==
    {"minPrice", "maxPrice", "minBedrooms", "maxBedrooms", "minBathrooms",
     "maxBathrooms", "minLivingArea", "maxLivingArea", "minLotSize", "maxLotSize",
     "yearBuiltMin", "yearBuiltMax"}

RangeFields == {"price", "bedrooms", "bathrooms", "livingArea", "lotSize", "yearBuilt"}

MinBound ==
    [price |-> "minPrice", bedrooms |-> "minBedrooms", bathrooms |-> "minBathrooms",
     livingArea |-> "minLivingArea", lotSize |-> "minLotSize", yearBuilt |-> "yearBuiltMin"]

MaxBound ==
    [price |-> "maxPrice", bedrooms |-> "maxBedrooms", bathrooms |-> "maxBathrooms",
     livingArea |-> "maxLivingArea", lotSize |-> "maxLotSize", yearBuilt |-> "yearBuiltMax"]

(* the filter inputs with bound a at va, bound b at vb, every other bound at its
   default 0, and the requested property types *)
FilterWith(a, va, b, vb, types) ==
    [name \in BoundNames \cup {"propertyTypes"} |->
        IF name = "propertyTypes" THEN types
        ELSE IF name = a THEN va
        ELSE IF name = b THEN vb
        ELSE 0]

RequestedHouse == <<"h","o","u","s","e">>
RequestedCondoCapitals == <<"C","O","N","D","O">>
RequestedPlex == <<"P","l","e","x">>
RequestedLoft == <<"L","o","f","t">>

TypeRequests ==
    {{RequestedHouse}, {RequestedCondoCapitals}, {RequestedHouse, RequestedPlex},
     {RequestedLoft}}

TestFilters ==
    {FilterWith(a, va, b, vb, {}) :
        a \in BoundNames, b \in BoundNames, va \in 0..MaxBoundValue, vb \in 0..MaxBoundValue}
    \cup {FilterWith("minBedrooms", v, "minBedrooms", v, types) :
            v \in 0..MaxBoundValue, types \in TypeRequests}

(* the configuration of a run whose filter inputs are f *)
ConfigWith(f, st, lang) ==
    [version |-> "v2.0", searchType |-> st, language |-> lang, regions |-> <<1>>,
     maxListings |-> 1, includeDetails |-> TRUE,
     maxConcurrency |-> 1, maxRequestRetries |-> 0,
     minPrice |-> f.minPrice, maxPrice |-> f.maxPrice,
     minBedrooms |-> f.minBedrooms, maxBedrooms |-> f.maxBedrooms,
     minBathrooms |-> f.minBathrooms, maxBathrooms |-> f.maxBathrooms,
     minLivingArea |-> f.minLivingArea, maxLivingArea |-> f.maxLivingArea,
     minLotSize |-> f.minLotSize, maxLotSize |-> f.maxLotSize,
     yearBuiltMin |-> f.yearBuiltMin, yearBuiltMax |-> f.yearBuiltMax,
     propertyTypes |-> f.propertyTypes]

FunctionInputs == {ConfigWith(f, "buy", "fr") : f \in TestFilters}

TypeCondoCapitals == <<"C","O","N","D","O">>
TypeDuplex == <<"D","u","p","l","e","x">>
TypeLoft == <<"L","o","f","t"," ","u","r","b","a","i","n">>
TypeChalet == <<"C","h","a","l","e","t">>

TestTypes == {<<>>, Maison, TypeCondoCapitals, TypeDuplex, TypeLoft, TypeChalet}

(* the listings matchesFilters is applied to *)
TestListings ==
    {[price |-> p, bedrooms |-> bd, bathrooms |-> bt, livingArea |-> la,
      yearBuilt |-> yb, lotSize |-> ls, propertyType |-> Maison] :
        p \in FieldValues, bd \in FieldValues, bt \in FieldValues,
        la \in FieldValues, yb \in FieldValues, ls \in {0, MaxFieldValue}}
    \cup {[price |-> Unknown, bedrooms |-> bd, bathrooms |-> Unknown,
           livingArea |-> Unknown, yearBuilt |-> Unknown, lotSize |-> Unknown,
           propertyType |-> t] :
             bd \in FieldValues, t \in TestTypes}

runVars ==
    <<listingsScraped, listingsFiltered, pagesScraped, errors, requests, queue,
      dataset, kvStore, statsLog, phase, discovered, faults>>

(* nothing is crawled while a function is applied on its own *)
NoRun ==
    /\ listingsScraped = 0
    /\ listingsFiltered = 0
    /\ pagesScraped = 0
    /\ errors = 0
    /\ requests = [u \in Urls |-> NewRequest]
    /\ queue = <<>>
    /\ dataset = EmptyBag
    /\ kvStore = <<>>
    /\ statsLog = <<>>
    /\ phase = "running"
    /\ discovered = {}
    /\ faults = 0

MaxTextLen == 3
MaxArea == 60000

DefaultConfig == ConfigWith(NoFilters, "buy", "fr")

PriceChars == {"0", "7", "5", " ", "$"}

RECURSIVE TextsUpTo(_)
TextsUpTo(n) ==
    IF n = 0 THEN {<<>>}
    ELSE LET shorter == TextsUpTo(n - 1)
         IN  shorter \cup {Append(t, ch) : t \in shorter, ch \in PriceChars}

(* the text fragments price extraction is applied to *)
PriceTexts == TextsUpTo(MaxTextLen) \cup {<<"7","5","0"," ","0","0","0"," ","$">>, <<"P","r","i","x"," ","s","u","r"," ","d","e","m","a","n","d","e">>}

(* v1.1 extractListingsFromPage, lines 183-185: the price of a card is read only
   from a text that holds '$', as parseInt(digits, 10) || null *)
ExtractCardPrice11(text) ==
    IF includes(text, <<"$">>) THEN ParseIntOrNull(text) ELSE Unknown

(* v1.1 extractListingDetails, lines 267-269 *)
ExtractPagePrice11(text) ==
    IF text # <<>> THEN ParseIntOrNull(text) ELSE Unknown

(* Math.round(n / d) for n >= 0, d > 0.  The source multiplies doubles: where
   the exact quotient ends in .5 the double product may fall on either side,
   and both roundings are outcomes. *)
MathRound(n, d) ==
    IF 2 * (n % d) = d THEN {n \div d, (n \div d) + 1}
    ELSE IF 2 * (n % d) > d THEN {(n \div d) + 1}
    ELSE {n \div d}

UnitSquareMetres == <<"m", "²">>
UnitSquareFeet == <<"p", "i", "²">>

(* parseArea (v1.0) on the number and the unit its pattern captured: square
   metres become square feet, Math.round(value * 10.764) *)
parseArea(value, unit) ==
    IF includes(toLowerCase(unit), <<"m">>)
    THEN MathRound(value * 10764, 1000)
    ELSE {value}

(* buildSearchUrl (v1.0), lines 1493-1494: Math.round(minLivingArea * 0.0929) *)
AreaParameter(squareFeet) == MathRound(squareFeet * 929, 10000)

(* CENTRIS_BASE_URL, line 577 *)
CENTRIS_BASE_URL == <<"h","t","t","p","s",":","/","/","w","w","w",".","c","e","n","t","r","i","s",".","c","a">>

(* REGION_MAP, lines 580-609: region name to Centris slug *)
REGION_MAP ==
       (<<"m","o","n","t","r","e","a","l">>
        :> <<"m","o","n","t","r","e","a","l">>)
    @@ (<<"m","o","n","t","r","é","a","l">>
        :> <<"m","o","n","t","r","e","a","l">>)
    @@ (<<"q","u","e","b","e","c"," ","c","i","t","y">>
        :> <<"q","u","e","b","e","c">>)
    @@ (<<"q","u","é","b","e","c">>
        :> <<"q","u","e","b","e","c">>)
    @@ (<<"l","a","v","a","l">>
        :> <<"l","a","v","a","l">>)
    @@ (<<"l","o","n","g","u","e","u","i","l">>
        :> <<"l","o","n","g","u","e","u","i","l">>)
    @@ (<<"g","a","t","i","n","e","a","u">>
        :> <<"g","a","t","i","n","e","a","u">>)
    @@ (<<"s","h","e","r","b","r","o","o","k","e">>
        :> <<"s","h","e","r","b","r","o","o","k","e">>)
    @@ (<<"t","r","o","i","s","-","r","i","v","i","è","r","e","s">>
        :> <<"t","r","o","i","s","-","r","i","v","i","e","r","e","s">>)
    @@ (<<"t","r","o","i","s","-","r","i","v","i","e","r","e","s">>
        :> <<"t","r","o","i","s","-","r","i","v","i","e","r","e","s">>)
    @@ (<<"s","a","g","u","e","n","a","y">>
        :> <<"s","a","g","u","e","n","a","y">>)
    @@ (<<"l","é","v","i","s">>
        :> <<"l","e","v","i","s">>)
    @@ (<<"l","e","v","i","s">>
        :> <<"l","e","v","i","s">>)
    @@ (<<"t","e","r","r","e","b","o","n","n","e">>
        :> <<"t","e","r","r","e","b","o","n","n","e">>)
    @@ (<<"b","r","o","s","s","a","r","d">>
        :> <<"b","r","o","s","s","a","r","d">>)
    @@ (<<"r","e","p","e","n","t","i","g","n","y">>
        :> <<"r","e","p","e","n","t","i","g","n","y">>)
    @@ (<<"d","r","u","m","m","o","n","d","v","i","l","l","e">>
        :> <<"d","r","u","m","m","o","n","d","v","i","l","l","e">>)
    @@ (<<"s","a","i","n","t","-","j","e","a","n","-","s","u","r","-","r","i","c","h","e","l","i","e","u">>
        :> <<"s","a","i","n","t","-","j","e","a","n","-","s","u","r","-","r","i","c","h","e","l","i","e","u">>)
    @@ (<<"s","a","i","n","t","-","j","e","r","o","m","e">>
        :> <<"s","a","i","n","t","-","j","e","r","o","m","e">>)
    @@ (<<"g","r","a","n","b","y">>
        :> <<"g","r","a","n","b","y">>)
    @@ (<<"b","l","a","i","n","v","i","l","l","e">>
        :> <<"b","l","a","i","n","v","i","l","l","e">>)
    @@ (<<"s","a","i","n","t","-","h","y","a","c","i","n","t","h","e">>
        :> <<"s","a","i","n","t","-","h","y","a","c","i","n","t","h","e">>)
    @@ (<<"s","h","a","w","i","n","i","g","a","n">>
        :> <<"s","h","a","w","i","n","i","g","a","n">>)
    @@ (<<"d","o","l","l","a","r","d","-","d","e","s","-","o","r","m","e","a","u","x">>
        :> <<"d","o","l","l","a","r","d","-","d","e","s","-","o","r","m","e","a","u","x">>)
    @@ (<<"r","i","m","o","u","s","k","i">>
        :> <<"r","i","m","o","u","s","k","i">>)
    @@ (<<"v","i","c","t","o","r","i","a","v","i","l","l","e">>
        :> <<"v","i","c","t","o","r","i","a","v","i","l","l","e">>)
    @@ (<<"s","a","i","n","t","-","e","u","s","t","a","c","h","e">>
        :> <<"s","a","i","n","t","-","e","u","s","t","a","c","h","e">>)
    @@ (<<"m","a","s","c","o","u","c","h","e">>
        :> <<"m","a","s","c","o","u","c","h","e">>)

(* REGION_MAP is an object literal: a key it does not define is still found
   when Object.prototype defines it, and the value found is truthy.  Of the
   names Object.prototype defines, these are the ones in lower case; the text
   is what the template literal of lines 778-783 makes of the value. *)
InheritedProperty ==
       (<<"c","o","n","s","t","r","u","c","t","o","r">>
        :> <<"f","u","n","c","t","i","o","n"," ","O","b","j","e","c","t","(",")"," ","{"," ","[","n","a","t","i","v","e"," ","c","o","d","e","]"," ","}">>)
    @@ (<<"_","_","p","r","o","t","o","_","_">>
        :> <<"[","o","b","j","e","c","t"," ","O","b","j","e","c","t","]">>)

(* REGION_MAP[key] || fallback: the table's own entry, else an inherited one *)
RegionMapLookup(key) ==
    IF key \in DOMAIN REGION_MAP THEN REGION_MAP[key]
    ELSE IF key \in DOMAIN InheritedProperty THEN InheritedProperty[key]
    ELSE <<>>

IsWhitespace(ch) == ch \in {" ", "\t", "\n"}

(* s.replace(/\s+/g, '-'): every maximal run of whitespace becomes one hyphen *)
RECURSIVE ReplaceWhitespaceRuns(_)
ReplaceWhitespaceRuns(s) ==
    IF s = <<>> THEN <<>>
    ELSE IF IsWhitespace(Head(s))
         THEN IF Len(s) > 1 /\ IsWhitespace(s[2])
              THEN ReplaceWhitespaceRuns(Tail(s))
              ELSE <<"-">> \o ReplaceWhitespaceRuns(Tail(s))
         ELSE <<Head(s)>> \o ReplaceWhitespaceRuns(Tail(s))

(* a faulty lookup: the name as typed, not lower-cased *)
regionSlugCaseSensitive(region) ==
    LET found == RegionMapLookup(region)
    IN  IF found # <<>> THEN found ELSE ReplaceWhitespaceRuns(region)

(* line 773: REGION_MAP[region.toLowerCase()]
             || region.toLowerCase().replace(/\s+/g, '-') *)
regionSlug(region) ==
    LET found == RegionMapLookup(toLowerCase(region))
    IN  IF found # <<>> THEN found ELSE ReplaceWhitespaceRuns(toLowerCase(region))

(* lines 776-784: the path of the search page *)
RegionBaseUrl(slug) ==
    CENTRIS_BASE_URL \o
    (IF input.searchType = "rent"
     THEN IF input.language = "fr"
          THEN <<"/","f","r","/","p","r","o","p","r","i","e","t","e","~","a","-","l","o","u","e","r","~">>
          ELSE <<"/","e","n","/","p","r","o","p","e","r","t","i","e","s","~","f","o","r","-","r","e","n","t","~">>
     ELSE IF input.language = "fr"
          THEN <<"/","f","r","/","p","r","o","p","r","i","e","t","e","~","a","-","v","e","n","d","r","e","~">>
          ELSE <<"/","e","n","/","p","r","o","p","e","r","t","i","e","s","~","f","o","r","-","s","a","l","e","~">>)
    \o slug

(* one name=value pair of URLSearchParams *)
Param(name, value) == <<name \o <<"=">> \o value>>

(* lines 787-796: the parameters appended, in order *)
RegionParams(pageNumber) ==
    (IF input.minPrice > 0 THEN Param(<<"p","m","i","n">>, NatToText(input.minPrice)) ELSE <<>>) \o
    (IF input.maxPrice > 0 THEN Param(<<"p","m","a","x">>, NatToText(input.maxPrice)) ELSE <<>>) \o
    (IF input.minBedrooms > 0 THEN Param(<<"b","e","d">>, NatToText(input.minBedrooms)) ELSE <<>>) \o
    (IF pageNumber > 1
     THEN Param(<<"v","i","e","w">>, <<"T","h","u","m","b","n","a","i","l">>) \o Param(<<"u","c">>, <<"0">>)
     ELSE <<>>)

(* params.toString(): the pairs joined by & *)
RECURSIVE ParamsToString(_)
ParamsToString(params) ==
    IF params = <<>> THEN <<>>
    ELSE IF Len(params) = 1 THEN params[1]
    ELSE params[1] \o <<"&">> \o ParamsToString(Tail(params))

(* buildRegionSearchUrl(region, pageNumber), lines 771-800 *)
buildRegionSearchUrl(region, pageNumber) ==
    LET baseUrl == RegionBaseUrl(regionSlug(region))
        queryString == ParamsToString(RegionParams(pageNumber))
    IN  IF queryString # <<>> THEN baseUrl \o <<"?">> \o queryString ELSE baseUrl

(* region names a run may be given *)
RegionQuebecAccent == <<"Q","u","é","b","e","c">>
RegionQuebecCity == <<"q","u","e","b","e","c"," ","c","i","t","y">>

TestRegions ==
    {RegionQuebecAccent, RegionQuebecCity,
     <<"M","o","n","t","r","e","a","l">>,
     <<"M","o","n","t","r","é","a","l">>,
     <<"M","O","N","T","R","É","A","L">>,
     <<"Q","u","e","b","e","c"," ","C","i","t","y">>,
     <<"Q","u","e","b","e","c">>,
     <<"T","r","o","i","s","-","R","i","v","i","è","r","e","s">>,
     <<"t","r","o","i","s","-","r","i","v","i","e","r","e","s">>,
     <<"L","é","v","i","s">>,
     <<"l","e","v","i","s">>,
     <<"S","a","i","n","t","-","J","é","r","ô","m","e">>,
     <<"s","a","i","n","t","-","j","e","r","o","m","e">>,
     <<"L","a","v","a","l">>,
     <<"B","a","i","e"," "," ","S","a","i","n","t"," ","P","a","u","l">>,
     <<"c","o","n","s","t","r","u","c","t","o","r">>}

(* searchType and language of the input schema, lines 628 and 650 *)
UrlSearchTypes == {"buy", "rent"}
UrlLanguages == {"fr", "en"}

(* configurations that differ in what buildRegionSearchUrl reads *)
UrlInputs ==
    {[ConfigWith(NoFilters, st, lang) EXCEPT
         !.minPrice = pmin, !.maxPrice = pmax, !.minBedrooms = bed] :
        st \in UrlSearchTypes, lang \in UrlLanguages,
        pmin \in 0..MaxBoundValue, pmax \in 0..MaxBoundValue, bed \in 0..MaxBoundValue}

(* what one call of buildRegionSearchUrl computes: its local regionSlug and
   the string it returns *)
RegionSearch(region, pageNumber) ==
    [regionSlug |-> regionSlug(region), url |-> buildRegionSearchUrl(region, pageNumber)]

(* { ...basicListing, ...details }, line 1134: the keys of both, the value of
   details where it defines the key *)
ObjectSpread(basicListing, details) ==
    [k \in DOMAIN basicListing \cup DOMAIN details |->
        IF k \in DOMAIN details THEN details[k] ELSE basicListing[k]]

(* the keys the evaluate closure of extractListingDetails (v2.0) may define *)
DetailKeys == {"priceFormatted", "propertyType", "bedrooms", "bathrooms"}

(* lines 1165-1173: the detailed listing of the handler, for what the closure
   returned *)
DetailedListingOf(basicData, details) ==
    ParsePriceIfNeeded(ObjectSpread(basicData, details))

(* The images of a listing page.  The address of an image is the sequence of
   the segments of its path; an img element without src and data-src has <<>> *)

MaxImages == 3

SizeSegments == {"100x100", "640x480", "1200x800"}

ImageNames == {"media.ashx", "photo.jpg", "logo.png"}

ImageSources ==
    {<<>>} \cup {<<name>> : name \in ImageNames}
           \cup {<<size, name>> : size \in {"100x100", "640x480"}, name \in ImageNames}

(* what querySelectorAll / page.$$ finds, in document order *)
ImageLists == UNION {[1..n -> ImageSources] : n \in 0..MaxImages}

(* src.replace(/\/\d+x\d+\//, '/1200x800/'), line 1798: the first size segment
   that another segment follows is replaced *)
RECURSIVE highRes(_)
highRes(src) ==
    IF Len(src) < 2 THEN src
    ELSE IF Head(src) \in SizeSegments THEN <<"1200x800">> \o Tail(src)
    ELSE <<Head(src)>> \o highRes(Tail(src))

InList(list, x) == \E i \in 1..Len(list) : list[i] = x

(* the loop over the img elements from element i on, images collected so far.
   v2.0 lines 1117-1122, v1.1 lines 306-311, v1.0 lines 1794-1801 *)
RECURSIVE CollectImages(_, _, _, _)
CollectImages(version, found, i, images) ==
    IF i > Len(found) THEN images
    ELSE LET src == found[i]
             kept == /\ src # <<>>
                     /\ ~InList(images, src)
                     /\ version = "v2.0" => InList(src, "media.ashx")
                     /\ version = "v1.1" => ~InList(src, "logo.png")
         IN  CollectImages(version, found, i + 1,
                 IF kept
                 THEN Append(images, IF version = "v1.0" THEN highRes(src) ELSE src)
                 ELSE images)

(* the images of the record: v2.0 keeps the first 20 (line 1123) *)
ExtractImages(version, found) ==
    LET images == CollectImages(version, found, 1, <<>>)
    IN  IF version = "v2.0" /\ Len(images) > 20 THEN SubSeq(images, 1, 20) ELSE images

(* The address parsers *)

(* String.prototype.trim *)
RECURSIVE trimStart(_)
trimStart(s) ==
    IF s # <<>> /\ IsWhitespace(Head(s)) THEN trimStart(Tail(s)) ELSE s

RECURSIVE trimEnd(_)
trimEnd(s) ==
    IF s # <<>> /\ IsWhitespace(s[Len(s)]) THEN trimEnd(SubSeq(s, 1, Len(s) - 1)) ELSE s

trim(s) == trimEnd(trimStart(s))

(* fullAddress.split(','): the pieces between the commas, empty ones included *)
RECURSIVE split(_, _)
split(s, piece) ==
    IF s = <<>> THEN <<piece>>
    ELSE IF Head(s) = "," THEN <<piece>> \o split(Tail(s), <<>>)
    ELSE split(Tail(s), Append(piece, Head(s)))

(* [A-Z] under the i flag: the 26 letters, either case *)
IsAsciiLetter(ch) == \E i \in 1..26 : Upper[i] = ch \/ Lower[i] = ch

UpperChar(ch) ==
    IF \E i \in 1..Len(Lower) : Lower[i] = ch
    THEN Upper[CHOOSE i \in 1..Len(Lower) : Lower[i] = ch]
    ELSE ch

toUpperCase(s) == [i \in 1..Len(s) |-> UpperChar(s[i])]

(* the number of whitespace characters of s from position k on *)
RECURSIVE WhitespaceRun(_, _)
WhitespaceRun(s, k) ==
    IF k <= Len(s) /\ IsWhitespace(s[k]) THEN 1 + WhitespaceRun(s, k + 1) ELSE 0

(* /[A-Z]\d[A-Z]\s*\d[A-Z]\d/i tried at position k of s: the length matched, 0
   when there is no match at k *)
PostalMatchAt(s, k) ==
    IF k + 2 <= Len(s) /\ IsAsciiLetter(s[k]) /\ IsDigit(s[k + 1]) /\ IsAsciiLetter(s[k + 2])
    THEN LET j == k + 3 + WhitespaceRun(s, k + 3)
         IN  IF j + 2 <= Len(s) /\ IsDigit(s[j]) /\ IsAsciiLetter(s[j + 1]) /\ IsDigit(s[j + 2])
             THEN j + 3 - k
             ELSE 0
    ELSE 0

(* parts[2].match(...): the leftmost match as [index, length], length 0 for null *)
postalMatch(s) ==
    IF \E k \in 1..Len(s) : PostalMatchAt(s, k) > 0
    THEN LET k == CHOOSE i \in 1..Len(s) :
                     PostalMatchAt(s, i) > 0 /\ \A h \in 1..(i - 1) : PostalMatchAt(s, h) = 0
         IN  [index |-> k, length |-> PostalMatchAt(s, k)]
    ELSE [index |-> 0, length |-> 0]

(* an address without a parsed field *)
NoAddress == [street |-> <<>>, city |-> <<>>, region |-> <<>>, postalCode |-> <<>>]

(* parseAddress (v1.0), lines 1677-1698; a field the result lacks is <<>> *)
parseAddress(fullAddress) ==
    IF fullAddress = <<>> THEN NoAddress
    ELSE LET raw == split(fullAddress, <<>>)
             parts == [i \in 1..Len(raw) |-> trim(raw[i])]
             m == IF Len(parts) >= 3 THEN postalMatch(parts[3]) ELSE [index |-> 0, length |-> 0]
         IN  [street |-> parts[1],
              city |-> IF Len(parts) >= 2 THEN parts[2] ELSE <<>>,
              region |->
                  IF Len(parts) < 3 THEN <<>>
                  ELSE IF m.length > 0
                  THEN trim(SubSeq(parts[3], 1, m.index - 1)
                            \o SubSeq(parts[3], m.index + m.length, Len(parts[3])))
                  ELSE parts[3],
              postalCode |->
                  IF Len(parts) >= 4 THEN parts[4]
                  ELSE IF m.length > 0
                  THEN toUpperCase(SubSeq(parts[3], m.index, m.index + m.length - 1))
                  ELSE <<>>]

(* extractListingDetails (v1.1), lines 331-339: the address built from
   pageData.fullAddress; parts[i] || null, and no postalCode key *)
BuildAddress11(fullAddress) ==
    IF fullAddress = <<>> THEN NoAddress
    ELSE LET raw == split(fullAddress, <<>>)
             parts == [i \in 1..Len(raw) |-> trim(raw[i])]
         IN  [street |-> parts[1],
              city |-> IF Len(parts) >= 2 THEN parts[2] ELSE <<>>,
              region |-> IF Len(parts) >= 3 THEN parts[3] ELSE <<>>,
              postalCode |-> <<>>]

MaxSegments == 4

(* what an address shows between two commas *)
AddressSegments ==
    {<<"1","2"," ","R","u","e"," ","A">>,
     <<" ","L","a","v","a","l">>,
     <<" ","Q","C">>,
     <<" ","Q","C"," ","H","2","X"," ","1","Y","4">>,
     <<" ","H","2","X","1","Y","4">>,
     <<" ","j","7","z"," ","5","t","3"," ","Q","C">>,
     <<" ","Q","C"," ","H","2","X"," "," ","1","Y","4">>,
     <<>>}

SegmentLists ==
    UNION {[1..n -> AddressSegments] : n \in 1..MaxSegments}

(* the segments joined by commas *)
RECURSIVE JoinSegments(_)
JoinSegments(segments) ==
    IF Len(segments) = 1 THEN segments[1]
    ELSE segments[1] \o <<",">> \o JoinSegments(Tail(segments))

(* configurations with a price bound between the prices of two cards *)
PriceBandInputs ==
    {ConfigWith(FilterWith("minPrice", lo, "maxPrice", hi, {}), "buy", "fr") :
        lo \in {0, 150}, hi \in {0, 150}}

FunctionInit ==
    /\ input \in FunctionInputs \cup UrlInputs \cup PriceBandInputs
    /\ call = NoCall
    /\ result = Pending
    /\ NoRun

(* matchesFilters(listing) under the configuration *)
CallMatchesFilters ==
    /\ call = NoCall
    /\ \E listing \in TestListings :
          /\ call' = [fn |-> "matchesFilters", arg |-> listing]
          /\ result' = matchesFilters(listing)
    /\ UNCHANGED <<input, runVars>>

(* the same listing judged again by matchesFilters under the configuration
   whose two bounds on one field are 0, that is inactive *)
Reconfigure(field) ==
    /\ call # NoCall /\ call.fn = "matchesFilters"
    /\ input[MinBound[field]] > 0 \/ input[MaxBound[field]] > 0
    /\ input' = [input EXCEPT ![MinBound[field]] = 0, ![MaxBound[field]] = 0]
    /\ UNCHANGED <<call, runVars>>
    /\ result' = matchesFilters(call.arg)'

(* parsePrice(priceStr) *)
CallParsePrice ==
    /\ call = NoCall /\ input = DefaultConfig
    /\ \E text \in PriceTexts :
          /\ call' = [fn |-> "parsePrice", arg |-> text]
          /\ result' = parsePrice(text)
    /\ UNCHANGED <<input, runVars>>

(* the price read by the v1.1 extractors from a card or from a listing page *)
CallExtractPrice11 ==
    /\ call = NoCall /\ input = DefaultConfig
    /\ \E text \in PriceTexts :
          \/ /\ call' = [fn |-> "extractCardPrice", arg |-> text]
             /\ result' = ExtractCardPrice11(text)
          \/ /\ call' = [fn |-> "extractPagePrice", arg |-> text]
             /\ result' = ExtractPagePrice11(text)
    /\ UNCHANGED <<input, runVars>>

(* a metric area read by parseArea, and the result handed to buildSearchUrl as
   a living-area bound *)
CallAreaRoundTrip ==
    /\ call = NoCall /\ input = DefaultConfig
    /\ \E m \in 0..MaxArea :
          \E squareFeet \in parseArea(m, UnitSquareMetres) :
             /\ call' = [fn |-> "areaRoundTrip", arg |-> m]
             /\ result' \in AreaParameter(squareFeet)
    /\ UNCHANGED <<input, runVars>>

(* buildRegionSearchUrl(region, pageNumber) under the configuration *)
CallBuildRegionSearchUrl ==
    /\ call = NoCall /\ input \in UrlInputs
    /\ \E region \in TestRegions, pageNumber \in 1..MaxSearchPages :
          /\ call' = [fn |-> "buildRegionSearchUrl", arg |-> region,
                       pageNumber |-> pageNumber, earlier |-> <<>>]
          /\ result' = RegionSearch(region, pageNumber)
    /\ UNCHANGED <<input, runVars>>

(* a later call for the same page under the same configuration, with the same
   or another region name *)
CallBuildRegionSearchUrlAgain ==
    /\ call # NoCall /\ call.fn = "buildRegionSearchUrl"
    /\ \E region \in TestRegions :
          /\ call' = [call EXCEPT !.arg = region, !.earlier = call.arg]
          /\ result' = RegionSearch(region, call.pageNumber)
    /\ UNCHANGED <<input, runVars>>

(* the address text of a card (v1.0, line 1621) handed to parseAddress, and the
   address text of a listing page (v1.1, line 261) built into an address *)
CallParseAddress ==
    /\ call = NoCall /\ input = DefaultConfig
    /\ \E segments \in SegmentLists :
          LET fullAddress == trim(JoinSegments(segments))
          IN  \/ /\ call' = [fn |-> "parseAddress", arg |-> fullAddress, segments |-> segments]
                 /\ result' = parseAddress(fullAddress)
              \/ /\ call' = [fn |-> "buildAddress", arg |-> fullAddress, segments |-> segments]
                 /\ result' = BuildAddress11(fullAddress)
    /\ UNCHANGED <<input, runVars>>

(* extractListingDetails (v2.0) and the price parse that follows it: the basic
   data of a card merged with what the listing page shows; the page defines a
   key when its element is found *)
CallExtractListingDetails ==
    /\ call = NoCall /\ input = DefaultConfig
    /\ \E c \in Cards, keys \in SUBSET DetailKeys, shown \in Cards \cup {0},
          type \in {Maison, Condo}, beds \in 1..MaxFieldValue :
          LET details == [k \in keys |->
                             CASE k = "priceFormatted" ->
                                      IF shown = 0 THEN <<>> ELSE PagePriceText(shown)
                               [] k = "propertyType" -> type
                               [] k = "bedrooms" -> beds
                               [] OTHER -> 1]
          IN  /\ call' = [fn |-> "extractListingDetails", arg |-> BasicData20(c),
                          details |-> details]
              /\ result' = DetailedListingOf(BasicData20(c), details)
    /\ UNCHANGED <<input, runVars>>

(* the image extraction of extractListingDetails, in each variant *)
CallExtractImages ==
    /\ call = NoCall /\ input = DefaultConfig
    /\ \E version \in Versions, found \in ImageLists :
          /\ call' = [fn |-> "extractImages", version |-> version, arg |-> found]
          /\ result' = ExtractImages(version, found)
    /\ UNCHANGED <<input, runVars>>

(* the price pre-filter of the search-page loop (lines 1211-1226) on the
   summary of a card, next to the verdict of matchesFilters on the same summary
   (1237-1249) and on its merge with what the listing page shows (1165-1176) *)
CallPreFilter ==
    /\ call = NoCall /\ input \in PriceBandInputs
    /\ \E c \in Cards, keys \in SUBSET {"priceFormatted"}, shown \in Cards \cup {0} :
          LET details == [k \in keys |->
                             IF shown = 0 THEN <<>> ELSE PagePriceText(shown)]
          IN  /\ call' = [fn |-> "preFilter", arg |-> Summary(c), details |-> details]
              /\ result' =
                    [dropped |-> PreFiltered20(BasicData20(c)),
                     summaryAccepted |-> matchesFilters(ParsePriceIfNeeded(BasicData20(c))),
                     detailAccepted |->
                         matchesFilters(DetailedListingOf(BasicData20(c), details))]
    /\ UNCHANGED <<input, runVars>>

FunctionNext ==
    \/ CallMatchesFilters
    \/ \E field \in RangeFields : Reconfigure(field)
    \/ CallParsePrice
    \/ CallExtractPrice11
    \/ CallAreaRoundTrip
    \/ CallBuildRegionSearchUrl
    \/ CallBuildRegionSearchUrlAgain
    \/ CallParseAddress
    \/ CallExtractListingDetails
    \/ CallExtractImages
    \/ CallPreFilter

FunctionSpec == FunctionInit /\ [][FunctionNext]_vars


---------------------------------------------------------------------------
(* matchesFilters against the filter contract *)

Judged == call.fn = "matchesFilters"

(* the judged listing has a known value of the field below the active minimum,
   or above the active maximum, configured for it *)
BreaksMin(field) ==
    /\ input[MinBound[field]] > 0
    /\ call.arg[field] # Unknown
    /\ call.arg[field] < input[MinBound[field]]

BreaksMax(field) ==
    /\ input[MaxBound[field]] > 0
    /\ call.arg[field] # Unknown
    /\ call.arg[field] > input[MaxBound[field]]

AllBoundsZero == \A b \in BoundNames : input[b] = 0

OnlyBoundsOn(fields) ==
    \A field \in RangeFields \ fields :
        input[MinBound[field]] = 0 /\ input[MaxBound[field]] = 0

NullableFields == {"price", "bedrooms", "bathrooms", "livingArea", "yearBuilt"}

(* C11: when a field of the listing (price, bedrooms, bathrooms, living area,
   year built) is unknown, judging the listing again with the bounds on that
   field inactive gives the same verdict: an unknown value is never rejected by
   a range bound. *)
C11_UnknownNeverRejectedByBound ==
    [][\A field \in NullableFields :
         (Reconfigure(field) /\ call.arg[field] = Unknown) => result' = result]_vars

C11_Witness ==
    /\ Judged
    /\ \E field \in NullableFields :
          /\ call.arg[field] = Unknown
          /\ input[MinBound[field]] > 0
          /\ \E other \in NullableFields \ {field} : BreaksMax(other)
    /\ result = FALSE

(* C12: under a configuration whose bounds are all 0 and whose requested
   property types are empty every listing matches; and a listing is rejected
   only when it breaks a bound configured above 0 or property types are
   requested: a bound at 0 never rejects. *)
C12_InactiveBoundsNeverReject ==
    Judged =>
      /\ (AllBoundsZero /\ input.propertyTypes = {}) => result = TRUE
      /\ result = FALSE =>
           \/ \E field \in RangeFields : BreaksMin(field) \/ BreaksMax(field)
           \/ input.propertyTypes # {}

C12_Witness ==
    /\ Judged /\ AllBoundsZero /\ input.propertyTypes = {}
    /\ call.arg.price = 0 /\ call.arg.bedrooms = MaxFieldValue
    /\ result = TRUE

CountedFields == {"bedrooms", "bathrooms", "livingArea", "yearBuilt"}

(* C13: a listing whose known number of bedrooms or bathrooms, living area or
   year built is below an active minimum or above an active maximum is
   rejected; and when only bounds on these fields are configured the listing
   is accepted exactly when it breaks none of them (logical AND). *)
C13_ActiveBoundsConjoined ==
    Judged =>
      LET broken == \E field \in CountedFields : BreaksMin(field) \/ BreaksMax(field)
      IN  /\ broken => result = FALSE
          /\ (OnlyBoundsOn(CountedFields) /\ input.propertyTypes = {})
               => (result = TRUE <=> ~broken)

C13_Witness ==
    /\ Judged
    /\ input.minBedrooms > 0 /\ input.maxBathrooms > 0
    /\ call.arg.bedrooms = input.minBedrooms
    /\ BreaksMax("bathrooms")
    /\ result = FALSE

(* C14: a listing whose known lot size is below an active minLotSize or above
   an active maxLotSize is rejected by matchesFilters. *)
C14_LotSizeBoundEnforced ==
    (Judged /\ (BreaksMin("lotSize") \/ BreaksMax("lotSize"))) => result = FALSE

(* C15: a known price, 0 included, is judged against the price bounds: below an
   active minPrice or above an active maxPrice the listing is rejected, and
   when only price bounds are configured it is rejected exactly then. *)
C15_KnownPriceJudged ==
    (Judged /\ call.arg.price # Unknown) =>
      LET broken == BreaksMin("price") \/ BreaksMax("price")
      IN  /\ broken => result = FALSE
          /\ (OnlyBoundsOn({"price"}) /\ input.propertyTypes = {})
               => (result = FALSE <=> broken)

(* sub occurs in s as a run of consecutive characters *)
IsSubstring(sub, s) ==
    \E first \in 1..(Len(s) + 1) : \E last \in 0..Len(s) : SubSeq(s, first, last) = sub

(* the lower-cased type of the judged listing contains a synonym of a requested
   category (the category's own lower-cased name when the table lacks it) *)
ContainsRequestedSynonym ==
    \E requestedType \in input.propertyTypes :
        \E synonym \in TypeVariants(requestedType) :
            IsSubstring(synonym, toLowerCase(call.arg.propertyType))

(* C16: for a listing with a non-empty property type, the type test of
   matchesFilters passes exactly when no type is requested or the lower-cased
   type contains a synonym of a requested category: a failed test rejects the
   listing, and with no range bound configured the verdict is the test's. *)
C16_TypeTestBySynonymSubstring ==
    (Judged /\ call.arg.propertyType # <<>>) =>
      LET passes == input.propertyTypes = {} \/ ContainsRequestedSynonym
      IN  /\ ~passes => result = FALSE
          /\ AllBoundsZero => (result = TRUE <=> passes)

C16_Witness ==
    /\ Judged
    /\ call.arg.propertyType = TypeLoft
    /\ input.propertyTypes = {RequestedLoft}
    /\ AllBoundsZero
    /\ result = TRUE


---------------------------------------------------------------------------
(* Price extraction and area conversion *)

PriceExtracted == call.fn \in {"parsePrice", "extractCardPrice", "extractPagePrice"}

(* the integer formed by the digits of a text, read from the left *)
RECURSIVE DigitsInOrder(_, _)
DigitsInOrder(text, sofar) ==
    IF text = <<>> THEN sofar
    ELSE IF IsDigit(Head(text))
    THEN DigitsInOrder(Tail(text), 10 * sofar + DigitVal(Head(text)))
    ELSE DigitsInOrder(Tail(text), sofar)

HasDigit(text) == \E i \in 1..Len(text) : IsDigit(text[i])

(* C17: price extraction gives, for a text with at least one digit, the integer
   its digits form in order ("750 000 $" gives 750000, "0 $" gives 0), and null
   for the empty text and for a text without digits. *)
C17_PriceFromDigits ==
    PriceExtracted =>
      IF HasDigit(call.arg) THEN result = DigitsInOrder(call.arg, 0)
      ELSE result = Unknown

(* C18: a metric area converted to square feet by parseArea and back by the
   URL builder's living-area parameter is within 1 of the original. *)
C18_AreaRoundTripWithinOne ==
    call.fn = "areaRoundTrip" =>
      (result >= call.arg - 1 /\ result <= call.arg + 1)


---------------------------------------------------------------------------
(* buildRegionSearchUrl against the URL contract *)

RegionCalled == call.fn = "buildRegionSearchUrl"

(* the names README.md lists side by side for one region, lines 217-218 *)
ReadmeSynonyms ==
    {{<<"M","o","n","t","r","e","a","l">>, <<"M","o","n","t","r","é","a","l">>},
     {<<"Q","u","e","b","e","c"," ","C","i","t","y">>, <<"Q","u","é","b","e","c">>}}

DiffersOnlyInCase(a, b) ==
    /\ Len(a) = Len(b)
    /\ \A i \in 1..Len(a) : LowerChar(a[i]) = LowerChar(b[i])

(* the same name up to letter case, or two names README.md gives for one region *)
SameRegionName(a, b) ==
    \/ DiffersOnlyInCase(a, b)
    \/ \E group \in ReadmeSynonyms :
          \E x \in group, y \in group : DiffersOnlyInCase(a, x) /\ DiffersOnlyInCase(b, y)

ExpectedQuebecRentPage2 ==
    <<"h","t","t","p","s",":","/","/","w","w","w",".","c","e","n","t","r","i","s",".","c","a","/","e","n","/","p","r","o","p","e","r","t","i","e","s","~","f","o","r","-","r","e","n","t","~","q","u","e","b","e","c","?","p","m","i","n","=","1","&","v","i","e","w","=","T","h","u","m","b","n","a","i","l","&","u","c","=","0">>

(* C19: buildRegionSearchUrl is deterministic, and region names that are
   synonyms or differ only in letter case get the same slug and the same URL:
   a call for the same page under the same configuration, with the same region
   name, with one that differs from it only in letter case, or with another of
   the names README.md gives for the region, computes the slug and returns the
   string of the call before it. *)
C19_SameRegionSameUrl ==
    [][(RegionCalled /\ CallBuildRegionSearchUrlAgain
            /\ SameRegionName(call.arg, call'.arg))
        => result' = result]_vars

(* "quebec city" asked after "Québec": page 2 of the rentals, in English, with
   a price floor *)
C19_Witness ==
    /\ RegionCalled
    /\ call.earlier = RegionQuebecAccent /\ call.arg = RegionQuebecCity
    /\ call.pageNumber = 2
    /\ input.searchType = "rent" /\ input.language = "en"
    /\ input.minPrice = 1 /\ input.maxPrice = 0 /\ input.minBedrooms = 0
    /\ result.url = ExpectedQuebecRentPage2

(* the regions README.md lists as supported, lines 217-231 *)
ReadmeRegions ==
    {<<"M","o","n","t","r","e","a","l">>,
     <<"M","o","n","t","r","é","a","l">>,
     <<"Q","u","e","b","e","c"," ","C","i","t","y">>,
     <<"Q","u","é","b","e","c">>,
     <<"L","a","v","a","l">>,
     <<"L","o","n","g","u","e","u","i","l">>,
     <<"G","a","t","i","n","e","a","u">>,
     <<"S","h","e","r","b","r","o","o","k","e">>,
     <<"T","r","o","i","s","-","R","i","v","i","è","r","e","s">>,
     <<"S","a","g","u","e","n","a","y">>,
     <<"L","é","v","i","s">>,
     <<"T","e","r","r","e","b","o","n","n","e">>,
     <<"B","r","o","s","s","a","r","d">>,
     <<"R","e","p","e","n","t","i","g","n","y">>,
     <<"D","r","u","m","m","o","n","d","v","i","l","l","e">>,
     <<"S","a","i","n","t","-","J","é","r","ô","m","e">>,
     <<"G","r","a","n","b","y">>}

UnaccentChar(ch) ==
    IF ch \in {"é", "è"} THEN "e"
    ELSE IF ch \in {"É", "È"} THEN "E"
    ELSE IF ch = "ô" THEN "o"
    ELSE IF ch = "Ô" THEN "O"
    ELSE ch

Unaccented(s) == [i \in 1..Len(s) |-> UnaccentChar(s[i])]

(* two spellings of one name: equal once accents and letter case are dropped *)
SpellingsOfOneName(a, b) == Unaccented(toLowerCase(a)) = Unaccented(toLowerCase(b))

ReadmeListed(region) == \E listed \in ReadmeRegions : SpellingsOfOneName(region, listed)

(* C20: for every region README.md lists, the accented and the unaccented
   spelling of its name get one slug; a name absent from REGION_MAP gets its
   lower-case form with every whitespace run replaced by a hyphen. *)
C20_SpellingsShareSlug ==
    [][CallBuildRegionSearchUrlAgain =>
         /\ (ReadmeListed(call.arg) /\ SpellingsOfOneName(call.arg, call'.arg))
                => result'.regionSlug = result.regionSlug
         /\ toLowerCase(call'.arg) \notin DOMAIN REGION_MAP
                => result'.regionSlug = ReplaceWhitespaceRuns(toLowerCase(call'.arg))]_vars


---------------------------------------------------------------------------
(* The address parsers against the address contract *)

AddressParsed == call.fn \in {"parseAddress", "buildAddress"}

(* a postal code at position k of s: letter-digit-letter, an optional space,
   digit-letter-digit; its length, 0 when there is none at k *)
PostalCodeAt(s, k) ==
    LET ldl(i) == i + 2 <= Len(s) /\ IsAsciiLetter(s[i]) /\ IsDigit(s[i + 1]) /\ IsAsciiLetter(s[i + 2])
        dld(i) == i + 2 <= Len(s) /\ IsDigit(s[i]) /\ IsAsciiLetter(s[i + 1]) /\ IsDigit(s[i + 2])
    IN  IF ldl(k) /\ dld(k + 3) THEN 6
        ELSE IF ldl(k) /\ k + 3 <= Len(s) /\ s[k + 3] = " " /\ dld(k + 4) THEN 7
        ELSE 0

HoldsPostalCode(s) == \E k \in 1..Len(s) : PostalCodeAt(s, k) > 0

FirstPostalCode(s) ==
    CHOOSE k \in 1..Len(s) :
        PostalCodeAt(s, k) > 0 /\ \A h \in 1..(k - 1) : PostalCodeAt(s, h) = 0

(* the address the contract gives for the segments of an address text *)
ExpectedAddress(segments) ==
    LET seg(i) == IF i <= Len(segments) THEN trim(segments[i]) ELSE <<>>
        k == FirstPostalCode(seg(3))
        n == PostalCodeAt(seg(3), k)
    IN  [street |-> seg(1),
         city |-> seg(2),
         region |-> IF HoldsPostalCode(seg(3))
                    THEN trim(SubSeq(seg(3), 1, k - 1) \o SubSeq(seg(3), k + n, Len(seg(3))))
                    ELSE seg(3),
         postalCode |-> IF Len(segments) >= 4 THEN seg(4)
                        ELSE IF HoldsPostalCode(seg(3)) THEN SubSeq(seg(3), k, k + n - 1)
                        ELSE <<>>]

(* C21: the address text is split on commas into trimmed segments; segment 0 is
   the street, segment 1 the city, segment 2 the region; a postal code found in
   segment 2 (letter-digit-letter, optional space, digit-letter-digit) becomes
   postalCode and what is left of segment 2 becomes the region; a segment 3
   overrides postalCode. *)
C21_AddressParsedBySegments ==
    AddressParsed => result = ExpectedAddress(call.segments)


---------------------------------------------------------------------------
(* The merge of summary and detail against the normalizer's contract *)

Merged == call.fn = "extractListingDetails"

(* the detail page shows a price *)
DetailShowsPrice ==
    "priceFormatted" \in DOMAIN call.details /\ HasDigit(call.details.priceFormatted)

(* C22: the merged record has the detail's value for every key the detail
   defines, the price shown on the detail page included, and the summary's
   value for every key only the summary has. *)
C22_DetailWinsOnItsKeys ==
    Merged =>
      /\ \A k \in DOMAIN call.details : result[k] = call.details[k]
      /\ DetailShowsPrice => result.price = parsePrice(call.details.priceFormatted)
      /\ \A k \in DOMAIN call.arg \ DOMAIN call.details :
            (k # "price" \/ ~DetailShowsPrice) => result[k] = call.arg[k]


---------------------------------------------------------------------------
(* The emitted records against the record invariants *)

(* C23: every listing record in the dataset has transactionType "Sale" or
   "Rental", "Rental" exactly when searchType is rent. *)
C23_TransactionTypeSaleOrRental ==
    \A rec \in ListingRecords :
        /\ rec.transactionType \in {"Sale", "Rental"}
        /\ rec.transactionType = "Rental" <=> input.searchType = "rent"

(* the listing object a request carries as its userData: the summary of its card *)
CarriedListing(u) ==
    IF input.version = "v2.0" THEN BasicData20(u.id) ELSE Summary(u.id)

Unstamped(listing) == listing.transactionType = "" /\ ~listing.scrapedAt

(* C24: transactionType and scrapedAt are assigned at the last step before the
   record is pushed, never at summary extraction or before the detail page has
   been processed: the summaries a search page has extracted and the listing
   carried by a request that is queued or whose page is still being read have
   neither, and every pushed record has both. *)
C24_StampedOnlyAtEmission ==
    /\ \A c \in discovered : Unstamped(CarriedListing(ListingUrl(c)))
    /\ \A u \in Urls :
          (u.label = "LISTING"
             /\ (requests[u].state = "queued"
                   \/ (requests[u].state = "inflight" /\ requests[u].pc = "extract")))
          => Unstamped(CarriedListing(u))
    /\ \A rec \in ListingRecords : rec.transactionType # "" /\ rec.scrapedAt

(* C26: no listing URL is emitted as a listing record more than once, and none
   is fetched as a detail page again once its request has been handled. *)
C26_ListingEmittedOnce ==
    /\ \A rec \in ListingRecords : CopiesIn(rec, dataset) = 1
    /\ \A r1 \in ListingRecords, r2 \in ListingRecords : r1.url = r2.url => r1 = r2

Pushing == {u \in Urls : requests[u].state = "inflight" /\ requests[u].pc = "push"}

(* C28: the quota check and the increment of the counter are one atomic step
   with respect to other tasks: while one handler is between its check and its
   increment, suspended at its pushData, no other handler is, and those that
   are fit in what is left of the quota. *)
C28_QuotaCheckAtomic ==
    /\ Cardinality(Pushing) <= 1
    /\ listingsScraped + Cardinality(Pushing) <= input.maxListings


(* the place on the page where an image of the record is first found, as it is
   or in the size the record gives it *)
FirstFound(found, image) ==
    CHOOSE k \in 1..Len(found) :
        /\ found[k] = image \/ highRes(found[k]) = image
        /\ \A h \in 1..(k - 1) : ~(found[h] = image \/ highRes(found[h]) = image)

(* C25: the images of a record hold no address twice and stand in the order in
   which the page first shows them. *)
C25_ImagesDistinctInPageOrder ==
    call.fn = "extractImages" =>
      /\ \A i \in 1..Len(result), j \in 1..Len(result) : i # j => result[i] # result[j]
      /\ \A i \in 1..Len(result), j \in 1..Len(result) :
            i < j => FirstFound(call.arg, result[i]) < FirstFound(call.arg, result[j])


---------------------------------------------------------------------------
(* Pagination against the scheduling contract *)

(* the search pages that join the queue in this step *)
NewSearchPages ==
    {w \in Urls : w.label = "LIST" /\ requests[w].state = "none" /\ requests'[w].state # "none"}

(* the handler of u reaches the test for a next page and goes on to look for the link *)
StartsProbe(u) == requests[u].pc # "probe" /\ requests'[u].pc = "probe"

(* card c of a search page has been dealt with: dropped by a filter, enqueued
   as a listing request, or pushed *)
CardProcessed(c) ==
    IF input.version = "v2.0"
    THEN \/ PreFiltered20(BasicData20(c))
         \/ input.includeDetails /\ requests[ListingUrl(c)].state # "none"
         \/ ~input.includeDetails
              /\ \/ ~matchesFilters(ParsePriceIfNeeded(BasicData20(c)))
                 \/ BagIn(Stamped(ParsePriceIfNeeded(BasicData20(c))), dataset)
    ELSE \/ input.includeDetails /\ requests[ListingUrl(c)].state # "none"
         \/ ~input.includeDetails /\ BagIn(Stamped(Summary(c)), dataset)

AllSummariesProcessed(u) ==
    \A i \in 1..Len(requests[u].listings) : CardProcessed(requests[u].listings[i])

(* C30 (v2.0 and v1.1): the handler of a search page looks for a next page only
   once every summary of the page has been processed, and only if the quota is
   not reached then and the page gave at least one summary; a successor joins
   the queue only in the step in which that handler's probe finds a link, and
   at most one per search page. *)
C30_SuccessorAfterProcessing ==
    [][input.version \in {"v2.0", "v1.1"} =>
         /\ \A u \in Urls :
               StartsProbe(u) => /\ listingsScraped' < input.maxListings
                                 /\ Len(requests'[u].listings) > 0
                                 /\ AllSummariesProcessed(u)'
         /\ Cardinality(NewSearchPages) <= 1
         /\ \A w \in NewSearchPages :
               \E u \in Urls :
                  /\ u.label = "LIST" /\ w = NextUrl(u)
                  /\ requests[u].pc = "probe" /\ Resolves(u, <<>>, TRUE)
                  /\ requests'[u].pc # "probe"]_vars

(* page 2 of a region is queued by the handler of page 1, which has returned,
   after it pushed one record of a quota of two *)
C30_Witness ==
    \E r \in 1..MaxRegions :
        /\ input.version = "v2.0" /\ ~input.includeDetails
        /\ requests[ListUrl(r, 1)].state = "handled"
        /\ requests[ListUrl(r, 2)].state = "queued"
        /\ listingsScraped = 1 /\ input.maxListings = 2


---------------------------------------------------------------------------
(* Termination.  crawlee's pool starts the request at the head of the queue
   whenever a slot is free, every awaited call of a handler settles (Playwright
   and crawlee bound each by a timeout), and crawler.run resolves once nothing
   is queued or in flight; failures stay the environment's choice. *)

LiveInputs == {i \in Inputs : i.version = "v2.0" /\ i.searchType = "buy"}

LiveInit == Init /\ input \in LiveInputs

(* a step the crawler takes by itself *)
Progress ==
    \/ \E u \in Urls : StartRequest(u) \/ AwaitResolves(u)
    \/ FinalStats

(* the states in which Progress can take a step: a request can start, an
   awaited call of a handler in flight can resolve, or the run can end *)
ProgressEnabled ==
    \/ phase = "running" /\ queue # <<>> /\ SlotFree
    \/ InFlight # {}
    \/ phase = "running" /\ queue = <<>> /\ InFlight = {}

(* weak fairness of Progress, WF_vars(Progress), written out with
   ProgressEnabled for ENABLED <<Progress>>_vars *)
ProgressIsFair == []<>(~ProgressEnabled) \/ []<><<Progress>>_vars

LiveSpec == LiveInit /\ [][Next]_vars /\ ProgressIsFair

(* C29: every queued request is eventually taken up, every request in flight
   eventually ends handled or failed for good, also when the quota is reached
   while it is in flight, and the run ends (the requests of a crawl of the
   numbered regions are those of RegionUrls). *)
C29_EveryTaskEndsAndRunExits ==
    /\ \A u \in RegionUrls :
          /\ (requests[u].state = "queued")
                ~> (requests[u].state \in {"inflight", "handled", "failed"})
          /\ (requests[u].state = "inflight")
                ~> (requests[u].state \in {"handled", "failed"})
    /\ <>(phase = "exited")

(* the run has exited with its quota met, a request that was still in flight
   when the last record of the quota was pushed having been handled too *)
C29_Witness ==
    /\ phase = "exited"
    /\ listingsScraped >= input.maxListings
    /\ \E u \in Urls, v \in Urls :
          u # v /\ requests[u].state = "handled" /\ requests[v].state = "handled"
    /\ errors > 0


---------------------------------------------------------------------------
(* The Montreal scenario: houses between 400000 and 800000 with three bedrooms
   or more, two listings wanted; everything else as the input defaults give it
   (lines 627-654), with and without detail pages. *)

House == <<"h","o","u","s","e">>

ScenarioInputs ==
    {[version |-> "v2.0", searchType |-> "buy", regions |-> <<Montreal>>,
      maxListings |-> 2, includeDetails |-> det,
      maxConcurrency |-> 3, maxRequestRetries |-> 3,
      minPrice |-> 400000, maxPrice |-> 800000,
      minBedrooms |-> 3, maxBedrooms |-> 0,
      minBathrooms |-> 0, maxBathrooms |-> 0,
      minLivingArea |-> 0, maxLivingArea |-> 0,
      minLotSize |-> 0, maxLotSize |-> 0,
      yearBuiltMin |-> 0, yearBuiltMax |-> 0,
      propertyTypes |-> {House}] : det \in BOOLEAN}

ScenarioInit == input \in ScenarioInputs /\ RunStarts

ScenarioSpec == ScenarioInit /\ [][Next]_vars

(* the card at position p of the page that was read *)
ShownAt(p) ==
    IF \E c \in discovered : c = CondoAt(p) THEN CondoAt(p) ELSE HouseAt(p)

RecordsPushed == BagCardinality(dataset)

InScenarioRange(rec) ==
    /\ rec.price >= 400000 /\ rec.price <= 800000
    /\ rec.bedrooms >= 3
    /\ rec.propertyType = Maison

(* nothing of the card at position p was done: not enqueued, not pushed *)
Untouched(p) ==
    /\ requests[ListingUrl(ShownAt(p))].state = "none"
    /\ \A rec \in BagToSet(dataset) : rec.url # ListingUrl(ShownAt(p))

(* C27: in the Montreal scenario a run without failures emits exactly two
   records, each in the price range, with three bedrooms or more and of type
   Maison, ends with listingsFiltered = 2, and stops before the fifth card. *)
C27_ScenarioTwoRecordsTwoFiltered ==
    (phase = "exited" /\ NoTaskFailed) =>
        /\ RecordsPushed = 2
        /\ \A rec \in BagToSet(dataset) : InScenarioRange(rec)
        /\ listingsFiltered = 2
        /\ Untouched(5)


---------------------------------------------------------------------------
(* the summaries a resolving step of u's search-page handler passes over
   without emitting them; the step ran the loop from card `from` on, over the
   listings L, with scraped records counted when it entered the loop *)
PassedOver(u, L, from, scraped) ==
    IF requests'[u].state = "inflight" /\ requests'[u].pc \in {"push", "enqueue"}
    THEN requests'[u].idx - 1 - from
    ELSE IF input.version = "v2.0" /\ scraped < input.maxListings
    THEN Len(L) - from
    ELSE 0

(* C31: without detail pages, a step of a search-page handler (v2.0, v1.1) adds
   to listingsScraped exactly the record it pushes and to listingsFiltered
   exactly the summaries it passes over: each summary processed is counted once,
   in one of the two counters. *)
C31_SummaryCountedOnce ==
    [][(input.version \in {"v2.0", "v1.1"} /\ ~input.includeDetails) =>
         \A u \in RegionUrls, content \in PageContents :
            LET r == requests[u]
                pushed == IF r.pc = "push" THEN 1 ELSE 0
                L == IF r.pc = "extract"
                     THEN SelectSeq(content, LAMBDA c : c # NoLink) ELSE r.listings
            IN  (/\ u.label = "LIST" /\ r.pc \in {"extract", "push"}
                 /\ Resolves(u, IF r.pc = "extract" THEN content ELSE <<>>, FALSE))
                => /\ listingsScraped' = listingsScraped + pushed
                   /\ listingsFiltered' =
                         listingsFiltered
                            + PassedOver(u, L, IF r.pc = "push" THEN r.idx ELSE 0,
                                         listingsScraped + pushed)]_vars

(* a v2.0 run without detail pages that has emitted one summary and filtered
   out another *)
C31_Witness ==
    /\ input.version = "v2.0" /\ ~input.includeDetails
    /\ listingsScraped > 0 /\ listingsFiltered > 0
    /\ errors = 0
    /\ phase = "exited"


---------------------------------------------------------------------------
(* a resolving step of u's search-page handler, with detail pages: nothing is
   filtered, no summary is passed over, and the summary whose addRequests
   resolved has its detail page in the queue's records *)
EnqueuesEverySummary(u, content) ==
    LET r == requests[u]
        L == IF r.pc = "extract"
             THEN SelectSeq(content, LAMBDA c : c # NoLink) ELSE r.listings
    IN  /\ listingsFiltered' = listingsFiltered
        /\ PassedOver(u, L, IF r.pc = "enqueue" THEN r.idx ELSE 0, listingsScraped) = 0
        /\ r.pc = "enqueue" => requests'[ListingUrl(r.listings[r.idx])].state # "none"

(* C32: with detail pages, the v2.0 search-page handler enqueues the detail
   page of every summary it reaches under the quota and filters nothing
   itself. *)
C32_NoFilteringAtSearchStage ==
    [][(input.version = "v2.0" /\ input.includeDetails) =>
         \A u \in RegionUrls, content \in PageContents :
            (/\ u.label = "LIST" /\ requests[u].pc \in {"extract", "enqueue"}
             /\ Resolves(u, IF requests[u].pc = "extract" THEN content ELSE <<>>, FALSE))
            => EnqueuesEverySummary(u, content)]_vars


---------------------------------------------------------------------------
(* Runs of v2.0 and v1.1 with any number of requested regions, none included *)

SeedInputs ==
    {[i EXCEPT !.regions = [k \in 1..n |-> k]] :
        i \in {j \in Inputs : /\ j.version \in {"v2.0", "v1.1"}
                              /\ j.searchType = "buy" /\ j.minPrice = 0
                              /\ j.maxConcurrency = 1},
        n \in 0..MaxRegions}

SeedInit == input \in SeedInputs /\ RunStarts

SeedSpec == SeedInit /\ [][Next]_vars

(* crawler.run has just been called: no request has been taken up yet *)
AtStart ==
    /\ phase = "running" /\ pagesScraped = 0 /\ faults = 0
    /\ \A u \in Urls : requests[u].state \in {"none", "queued"} /\ requests[u].retryCount = 0

RequestedSeeds == {ListUrl(input.regions[i], 1) : i \in 1..Len(input.regions)}

Known == {u \in Urls : requests[u].state # "none"}

(* C33: at the start the queue holds the page-1 search page of every requested
   region, once each, and nothing else; every request that appears later is
   added in a step of a search-page handler. *)
C33_SeededPerRegion ==
    [][/\ AtStart => /\ Known = RequestedSeeds
                     /\ Len(queue) = Len(input.regions)
       /\ \A w \in Known' \ Known :
             \E u \in Urls : /\ u.label = "LIST" /\ InHandler(u)
                             /\ requests'[u] # requests[u]]_vars


---------------------------------------------------------------------------
(* the read of u's search page resolves in this step *)
ExtractionResolves(u) ==
    /\ u.label = "LIST" /\ InHandler(u) /\ requests[u].pc = "extract"
    /\ \E content \in PageContents : Resolves(u, content, FALSE)

(* the search pages the queue has come to know *)
SearchTasks == {u \in Known : u.label = "LIST"}

(* C34: pagesScraped is incremented once per search page, when its summaries
   have been extracted, whatever the number of attempts: it changes only in a
   step in which an extraction resolves, by one, and never exceeds the number
   of search pages of the run. *)
C34_PageCountedOncePerExtraction ==
    [][/\ pagesScraped' # pagesScraped =>
             /\ pagesScraped' = pagesScraped + 1
             /\ \E u \in RegionUrls : ExtractionResolves(u)
       /\ pagesScraped' <= Cardinality(SearchTasks')]_vars

---------------------------------------------------------------------------
ListingTasks == {u \in Known : u.label = "LISTING"}

(* C35: in v1.1 with detail pages, where one task stands for one listing,
   retries never make a listing appear twice in the dataset nor count twice
   in listingsScraped. *)
C35_RetryEmitsNothingTwice ==
    (input.version = "v1.1" /\ input.includeDetails) =>
        /\ \A rec \in ListingRecords : CopiesIn(rec, dataset) = 1
        /\ \A r1 \in ListingRecords, r2 \in ListingRecords : r1.url = r2.url => r1 = r2
        /\ listingsScraped <= Cardinality(ListingTasks)


---------------------------------------------------------------------------
(* C36: listingsScraped never decreases, and when the run has ended it equals
   the number of listing records in the dataset, error records left aside. *)
C36_ScrapedCountsListingRecords ==
    [][/\ listingsScraped' >= listingsScraped
       /\ phase' = "exited" => listingsScraped' = ListingRecordCount']_vars

(* a v1.1 run that ended with listing records and an error record *)
C36_Witness ==
    /\ phase = "exited" /\ input.version = "v1.1"
    /\ listingsScraped > 0
    /\ \E u \in RegionUrls : ErrorRecordCount(u) > 0


---------------------------------------------------------------------------
(* C37: a listing without a property type passes the type test whatever types
   are requested: matchesFilters accepts it exactly when none of its known
   values breaks a range bound. *)
C37_UnknownTypeRetained ==
    (Judged /\ call.arg.propertyType = <<>> /\ input.propertyTypes # {}) =>
        (result = TRUE <=> \A field \in RangeFields : ~BreaksMin(field) /\ ~BreaksMax(field))

C37_Witness ==
    /\ Judged
    /\ call.arg.propertyType = <<>>
    /\ input.propertyTypes = {RequestedHouse}
    /\ result = TRUE


---------------------------------------------------------------------------
PreFilterApplied == call.fn = "preFilter"

(* the listing page shows a price inside the configured band *)
PagePriceInBand ==
    /\ "priceFormatted" \in DOMAIN call.details
    /\ LET p == parsePrice(call.details.priceFormatted)
       IN  /\ Truthy(p)
           /\ input.minPrice > 0 => p >= input.minPrice
           /\ input.maxPrice > 0 => p <= input.maxPrice

(* C38: a summary the v2.0 price pre-filter drops is rejected by matchesFilters
   too, as it stands and after its merge with the detail page, whatever price
   that page shows: the pre-filter removes no record the full filter keeps. *)
C38_PreFilterSound ==
    (PreFilterApplied /\ result.dropped) =>
        ~result.summaryAccepted /\ ~result.detailAccepted

(* a dropped summary whose listing page shows a price inside the band *)
C38_Witness ==
    /\ PreFilterApplied /\ result.dropped
    /\ PagePriceInBand


---------------------------------------------------------------------------
(* the counters a detail-page handler may increment, summed *)
OutcomeCount == listingsScraped + listingsFiltered + errors

(* C39: a step of the v2.0 detail-page handler leaves pagesScraped and the
   queue alone and lowers no counter; the step in which the handler returns
   adds exactly 1 to exactly one of listingsScraped, listingsFiltered and
   errors, and no other step of the handler changes them. *)
C39_DetailHandlerCountsOnce ==
    [][input.version = "v2.0" =>
         \A u \in RegionUrls :
            (/\ u.label = "LISTING" /\ InHandler(u)
             /\ requests'[u] # requests[u]
             /\ requests'[u].state \in {"inflight", "handled"})
            => /\ pagesScraped' = pagesScraped
               /\ queue' = queue /\ Known' = Known
               /\ listingsScraped' >= listingsScraped
               /\ listingsFiltered' >= listingsFiltered
               /\ errors' >= errors
               /\ OutcomeCount' = OutcomeCount
                     + (IF requests'[u].state = "handled" THEN 1 ELSE 0)]_vars

(* both detail pages of a one-region run were handled, one emitted or filtered
   and one ending in the handler's catch *)
C39_Witness ==
    /\ input.version = "v2.0" /\ input.includeDetails
    /\ Len(input.regions) = 1 /\ pagesScraped = 1
    /\ \A c \in Cards : requests[ListingUrl(c)].state = "handled"
    /\ errors = 1 /\ faults = 1
    /\ listingsScraped + listingsFiltered = NumCards - 1

=============================================================================
